---- MODULE Spec2Model ----
(***************************************************************************)
(* Ingestion-and-retrieval pipeline of the canvas backend:                 *)
(*   backend/pdf_processor.py  PDFExtractor, TextChunker,                  *)
(*                             EmbeddingGenerator, SupabaseRAGStorage,     *)
(*                             PDFProcessor                                *)
(*   backend/server.py         the HTTP handlers that drive them           *)
(* Texts are sequences of characters; a character is a one-character       *)
(* string, with "NUL" for U+0000 and "REPL" for U+FFFD.                    *)
(***************************************************************************)
EXTENDS Integers, Sequences, FiniteSets, TLC

VARIABLES
    \* TextChunker.chunk_text: one call in progress
    ck_size, ck_overlap, ck_text, ck_page, ck_start, ck_index, ck_chunks, ck_pc,
    \* EmbeddingGenerator.generate_embeddings: the locals of one call in progress,
    \* the number of the request that failed (0: none failed), and whether some
    \* response came back out of submission order
    emb, emb_failed, emb_reordered,
    \* the Supabase project: the rows of pdf_documents and pdf_chunks in insertion
    \* order, and the paths of the objects in the "pdfs" bucket
    pdf_documents, pdf_chunks, blobs,
    \* the /api/pdf/upload requests: the locals of upload_pdf and process_pdf
    calls,
    \* the /api/pdf/search request being answered, with its response
    last_search,
    \* the rows of pdf_canvas_links in insertion order, the last response of
    \* /api/pdf/canvas-link, and the history of the requests it answered 200
    pdf_canvas_links, link_resp, link_log,
    \* the rows of handwriting_notes and handwriting_chunks in insertion order
    \* and the paths of the objects in the handwriting bucket
    handwriting_notes, handwriting_chunks, hw_blobs,
    \* the /api/handwriting-upload requests and the invocations of process_note
    hw_calls, note_tasks,
    \* the last retrieval by canvas selection: the /api/ask request or the call of
    \* search_context_for_shape_ids, with what it returned
    ask,
    \* PDFExtractor._clean_text: the argument of one call and what it returned
    cl_text, cl_out

chunkVars == <<ck_size, ck_overlap, ck_text, ck_page, ck_start, ck_index, ck_chunks, ck_pc>>
embVars == <<emb, emb_failed, emb_reordered>>
storeVars == <<pdf_documents, pdf_chunks, blobs>>
pdfVars == <<calls, last_search>>
canvasVars == <<pdf_canvas_links, link_resp, link_log>>
noteVars == <<handwriting_notes, handwriting_chunks, hw_blobs, hw_calls, note_tasks>>
askVars == <<ask>>
cleanVars == <<cl_text, cl_out>>
vars == <<chunkVars, embVars, storeVars, pdfVars, canvasVars, noteVars, askVars, cleanVars>>

\* what the steps of one component leave alone
notChunk == <<embVars, storeVars, pdfVars, canvasVars, noteVars, askVars, cleanVars>>
notEmbed == <<chunkVars, storeVars, pdfVars, canvasVars, noteVars, askVars, cleanVars>>
notPdf == <<chunkVars, embVars, canvasVars, noteVars, askVars, cleanVars>>
notCanvas == <<chunkVars, embVars, storeVars, pdfVars, noteVars, askVars, cleanVars>>
notAsk == <<chunkVars, embVars, storeVars, pdfVars, canvasVars, noteVars, cleanVars>>
notClean == <<chunkVars, embVars, storeVars, pdfVars, canvasVars, noteVars, askVars>>
notNote == <<chunkVars, embVars, storeVars, pdfVars, canvasVars, askVars, cleanVars>>

----------------------------------------------------------------------------
(* Bounds of the model *)

\* a generated input text is the concatenation of at most MaxRuns runs
MaxRuns == 2

\* generate_embeddings is called with at most MaxTexts strings and a batch size
\* of at most MaxBatch
MaxTexts == 3
MaxBatch == 2

\* the number of /api/pdf/upload requests
MaxCalls == 2

\* /api/pdf/search is asked for at most MaxLimit rows
MaxLimit == 2

\* /api/pdf/canvas-link answers at most MaxLinks requests with 200
MaxLinks == 2

\* the number of /api/handwriting-upload requests, and the number of times
\* process_note is invoked for one note
MaxNotes == 2
MaxInvocations == 2
MaxCleanLen == 5
MaxEmitted == 4

----------------------------------------------------------------------------
(* Characters and Python string primitives *)

Min(a, b) == IF a < b THEN a ELSE b
Max(a, b) == IF a > b THEN a ELSE b

\* str.isspace() on the characters of the model's alphabet
IsSpace(c) == c \in {" ", "\n"}

\* c * n
Rep(c, n) == [i \in 1..n |-> c]

\* s[a:b] for 0 <= a, 0 <= b (Python clamps the slice to the string)
Slice(s, a, b) == SubSeq(s, a + 1, Min(b, Len(s)))

\* index of the first / last character of s[lo..hi] that is not whitespace,
\* 0 when there is none
RECURSIVE FirstNonSpace(_, _, _)
FirstNonSpace(s, lo, hi) ==
    IF lo > hi THEN 0
    ELSE IF lo = hi THEN (IF IsSpace(s[lo]) THEN 0 ELSE lo)
    ELSE LET m == (lo + hi) \div 2
             l == FirstNonSpace(s, lo, m)
         IN  IF l # 0 THEN l ELSE FirstNonSpace(s, m + 1, hi)

RECURSIVE LastNonSpace(_, _, _)
LastNonSpace(s, lo, hi) ==
    IF lo > hi THEN 0
    ELSE IF lo = hi THEN (IF IsSpace(s[lo]) THEN 0 ELSE lo)
    ELSE LET m == (lo + hi) \div 2
             r == LastNonSpace(s, m + 1, hi)
         IN  IF r # 0 THEN r ELSE LastNonSpace(s, lo, m)

\* s.strip()
Strip(s) ==
    LET f == FirstNonSpace(s, 1, Len(s))
    IN  IF f = 0 THEN <<>> ELSE SubSeq(s, f, LastNonSpace(s, 1, Len(s)))

----------------------------------------------------------------------------
(* PDFExtractor *)

RECURSIVE JoinSplitRange(_, _, _, _)
JoinSplitRange(s, lo, hi, last) ==
    IF lo > hi THEN <<>>
    ELSE IF lo = hi
         THEN IF ~IsSpace(s[lo]) THEN <<s[lo]>>
              ELSE IF lo > 1 /\ ~IsSpace(s[lo - 1]) /\ lo < last THEN <<" ">>
              ELSE <<>>
    ELSE LET m == (lo + hi) \div 2
         IN  JoinSplitRange(s, lo, m, last) \o JoinSplitRange(s, m + 1, hi, last)

\* " ".join(text.split()): the words of text, one space between two of them
JoinSplit(s) == JoinSplitRange(s, 1, Len(s), LastNonSpace(s, 1, Len(s)))

RECURSIVE RemoveRange(_, _, _, _)
RemoveRange(s, ch, lo, hi) ==
    IF lo > hi THEN <<>>
    ELSE IF lo = hi THEN (IF s[lo] = ch THEN <<>> ELSE <<s[lo]>>)
    ELSE LET m == (lo + hi) \div 2
         IN  RemoveRange(s, ch, lo, m) \o RemoveRange(s, ch, m + 1, hi)

\* text.replace(ch, "")
Remove(s, ch) == RemoveRange(s, ch, 1, Len(s))

\* PDFExtractor._clean_text
CleanText(text) == Strip(Remove(Remove(JoinSplit(text), "NUL"), "REPL"))

\* extract_text_by_page on a readable file: page number -> cleaned text
ExtractTextByPage(pages) == [p \in 1..Len(pages) |-> CleanText(pages[p])]

----------------------------------------------------------------------------
(* TextChunker *)

\* `len(chunk_text.strip()) > 50`
MinContent == 50

\* PDFProcessor builds TextChunker(chunk_size=1000, overlap=200)
PdfChunkSize == 1000
PdfOverlap == 200

\* the chunker configurations exercised
ChunkConfigs == { <<PdfChunkSize, PdfOverlap>>, <<400, 100>> }

\* the test with the minimum of 50 characters forgotten
HasAnyContent(chunk_text) == Len(Strip(chunk_text)) > 0

\* Only include chunks that have meaningful content
HasContent(chunk_text) == Len(Strip(chunk_text)) > MinContent

\* the advance with the overlap forgotten
AdvanceNoOverlap(size, ovl) == size

\* start += (self.chunk_size - self.overlap)
Advance(size, ovl) == size - ovl

\* the dict appended for one window
ChunkRecord(chunk_text, page, index, s, e) ==
    [text |-> chunk_text, page_number |-> page, chunk_index |-> index,
     char_start |-> s, char_end |-> e]

\* the iteration with chunk_index counting the windows, not the chunks
ChunkBodyCountsWindows(size, ovl, text, page, st) ==
    LET end == st.start + size
        chunk_text == Slice(text, st.start, end)
        emit == HasContent(chunk_text)
    IN  [start       |-> st.start + Advance(size, ovl),
         chunk_index |-> st.chunk_index + 1,
         chunks      |-> IF emit
                         THEN Append(st.chunks,
                                ChunkRecord(chunk_text, page, st.chunk_index, st.start, end))
                         ELSE st.chunks]

\* one iteration of the while loop of chunk_text on the locals
\* st = [start, chunk_index, chunks]
ChunkBody(size, ovl, text, page, st) ==
    LET end == st.start + size
        chunk_text == Slice(text, st.start, end)
        emit == HasContent(chunk_text)
    IN  [start       |-> st.start + Advance(size, ovl),
         chunk_index |-> IF emit THEN st.chunk_index + 1 ELSE st.chunk_index,
         chunks      |-> IF emit
                         THEN Append(st.chunks,
                                ChunkRecord(chunk_text, page, st.chunk_index, st.start, end))
                         ELSE st.chunks]

\* the whole loop, from the locals st
RECURSIVE ChunkLoop(_, _, _, _, _)
ChunkLoop(size, ovl, text, page, st) ==
    IF st.start < Len(text)
    THEN ChunkLoop(size, ovl, text, page, ChunkBody(size, ovl, text, page, st))
    ELSE st.chunks

\* TextChunker(size, ovl).chunk_text(text, page)
ChunkText(size, ovl, text, page) ==
    ChunkLoop(size, ovl, text, page, [start |-> 0, chunk_index |-> 0, chunks |-> <<>>])

----------------------------------------------------------------------------
(* EmbeddingGenerator *)

\* what a call hands back: nothing (it is still running, or it raised), or the
\* value of its return statement
NoReturn == [returned |-> FALSE, value |-> <<>>]
Returned(v) == [returned |-> TRUE, value |-> v]

\* the vector the embedding service computes for a text
EmbedOf(t) == (Len(t) * 3 + 1) % 7

\* the permutations of 1..n
Perms(n) == { p \in [1..n -> 1..n] : \A i, j \in 1..n : p[i] = p[j] => i = j }

\* response.data for a batch: one item per input, carrying its batch-local
\* index, in an order the service chooses
ServiceResponses(batch) ==
    { [k \in 1..Len(batch) |-> [index |-> p[k] - 1, embedding |-> EmbedOf(batch[p[k]])]]
        : p \in Perms(Len(batch)) }

\* insertion of an item into a list sorted by index, after the items of equal index
RECURSIVE InsertByIndex(_, _)
InsertByIndex(sorted, item) ==
    IF sorted = <<>> THEN <<item>>
    ELSE IF item.index < sorted[1].index THEN <<item>> \o sorted
    ELSE <<sorted[1]>> \o InsertByIndex(Tail(sorted), item)

\* sorted(data, key=lambda x: x.index)
RECURSIVE SortedByIndex(_)
SortedByIndex(data) ==
    IF data = <<>> THEN <<>>
    ELSE InsertByIndex(SortedByIndex(SubSeq(data, 1, Len(data) - 1)), data[Len(data)])

\* the items in the order the service sent them
Unsorted(data) == data

\* the order in which the items of a response are read
ResponseOrder(data) == SortedByIndex(data)

\* [item.embedding for item in sorted(response.data, key=lambda x: x.index)]
BatchEmbeddings(data) ==
    LET items == ResponseOrder(data)
    IN  [k \in 1..Len(items) |-> items[k].embedding]

\* the locals of generate_embeddings(texts, batch_size) at its first line
EmbCall(texts, batch_size) ==
    [texts |-> texts, batch_size |-> batch_size, i |-> 0, all_embeddings |-> <<>>,
     requests |-> 0, pc |-> "loop", ret |-> NoReturn]

\* batch = texts[i:i + batch_size]
EmbBatch(f) == Slice(f.texts, f.i, f.i + f.batch_size)

\* the loop body when the request succeeds with response.data = data
EmbBatchOk(f, data) ==
    [f EXCEPT !.requests = @ + 1,
              !.all_embeddings = @ \o BatchEmbeddings(data),
              !.i = @ + f.batch_size]

\* the failure swallowed: the loop goes on to the next batch
EmbBatchSkipped(f) ==
    [f EXCEPT !.requests = @ + 1, !.i = @ + f.batch_size]

\* the loop body when the request fails: the except clause logs and re-raises
EmbBatchFailed(f) ==
    [f EXCEPT !.requests = @ + 1, !.pc = "raised"]

\* return all_embeddings
EmbReturned(f) == [f EXCEPT !.pc = "returned", !.ret = Returned(f.all_embeddings)]

\* the input strings
TextPool == { <<"a">>, <<"a", "b">>, <<"a", " ", "b">> }
EmbedInputs == UNION { [1..n -> TextPool] : n \in 0..MaxTexts }

----------------------------------------------------------------------------
(* generate_embeddings, one batch per step *)

EmbedInit ==
    /\ \E texts \in EmbedInputs, bs \in 1..MaxBatch : emb = EmbCall(texts, bs)
    /\ emb_failed = 0
    /\ emb_reordered = FALSE

\* one request answered
EmbedBatchOk ==
    /\ emb.pc = "loop"
    /\ emb.i < Len(emb.texts)
    /\ \E data \in ServiceResponses(EmbBatch(emb)) :
          /\ emb' = EmbBatchOk(emb, data)
          /\ emb_reordered' = (emb_reordered \/ \E k \in 1..Len(data) : data[k].index # k - 1)
    /\ UNCHANGED <<emb_failed, notEmbed>>

\* one request fails
EmbedBatchFails ==
    /\ emb.pc = "loop"
    /\ emb.i < Len(emb.texts)
    /\ emb' = EmbBatchFailed(emb)
    /\ emb_failed' = IF emb_failed = 0 THEN emb.requests + 1 ELSE emb_failed
    /\ UNCHANGED <<emb_reordered, notEmbed>>

EmbedReturn ==
    /\ emb.pc = "loop"
    /\ ~(emb.i < Len(emb.texts))
    /\ emb' = EmbReturned(emb)
    /\ UNCHANGED <<emb_failed, emb_reordered, notEmbed>>

EmbedNext == EmbedBatchOk \/ EmbedBatchFails \/ EmbedReturn

\* no generate_embeddings call
EmbedIdle ==
    /\ emb = [EmbCall(<<>>, 1) EXCEPT !.pc = "idle"]
    /\ emb_failed = 0
    /\ emb_reordered = FALSE

----------------------------------------------------------------------------
(* SupabaseRAGStorage *)

\* `document_id: Optional[str] = None`: no document id
NoDoc == 0

\* the table after the insert of a batch of rows: the database numbers the rows
InsertRows(table, batch) ==
    table \o [k \in 1..Len(batch) |-> [id |-> Len(table) + k] @@ batch[k]]

\* upload_pdf_file: storage_path = f"{uuid.uuid4()}/{filename}"
StoragePath(uuid, filename) == <<uuid, filename>>

\* insert_document: the row written to pdf_documents
DocumentRow(filename, storage_path, page_count, file_size) ==
    [filename |-> filename, storage_path |-> storage_path,
     page_count |-> page_count, file_size |-> file_size]

\* get_document: response.data[0] if response.data else None, as the list of
\* the rows found
GetDocument(documents, document_id) ==
    SelectSeq(documents, LAMBDA d : d.id = document_id)

\* insert_chunks: the row built for one (chunk, embedding) pair
ChunkRow(document_id, chunk, embedding) ==
    [document_id |-> document_id,
     page_number |-> chunk.page_number,
     chunk_index |-> chunk.chunk_index,
     chunk_text  |-> chunk.text,
     embedding   |-> embedding,
     metadata    |-> [char_start |-> chunk.char_start,
                      char_end |-> chunk.char_end,
                      text_length |-> Len(chunk.text)]]

\* the pairing that gives each chunk the embedding of the chunk after it
ChunkRowsShifted(document_id, chunks, embeddings) ==
    [k \in 1..Min(Len(chunks), Len(embeddings) - 1) |->
        ChunkRow(document_id, chunks[k], embeddings[k + 1])]

\* insert_chunks: for chunk, embedding in zip(chunks, embeddings)
ChunkRows(document_id, chunks, embeddings) ==
    [k \in 1..Min(Len(chunks), Len(embeddings)) |->
        ChunkRow(document_id, chunks[k], embeddings[k])]

\* insert_chunks: batch_size = 50
InsertBatchSize == 50

\* the similarity of a stored embedding to the query embedding, in hundredths
Similarity(q, e) == 100 - 20 * (IF q > e THEN q - e ELSE e - q)

\* match_pdf_chunks: the rows of the filtered document (of all, without a
\* filter) that reach the threshold, with their similarity
RECURSIVE Matching(_, _)
Matching(rows, p) ==
    IF rows = <<>> THEN <<>>
    ELSE LET r == rows[Len(rows)]
             sim == Similarity(p.query_embedding, r.embedding)
             rest == Matching(SubSeq(rows, 1, Len(rows) - 1), p)
         IN  IF /\ (p.filter_document_id = NoDoc \/ r.document_id = p.filter_document_id)
                /\ sim >= p.match_threshold
             THEN Append(rest, [id |-> r.id, document_id |-> r.document_id,
                                page_number |-> r.page_number, similarity |-> sim])
             ELSE rest

\* insertion into a list ranked by similarity descending, after the rows of
\* equal similarity (earlier inserted rows stay first)
RECURSIVE InsertBySimilarity(_, _)
InsertBySimilarity(ranked, row) ==
    IF ranked = <<>> THEN <<row>>
    ELSE IF row.similarity > ranked[1].similarity THEN <<row>> \o ranked
    ELSE <<ranked[1]>> \o InsertBySimilarity(Tail(ranked), row)

RECURSIVE RankBySimilarity(_)
RankBySimilarity(rows) ==
    IF rows = <<>> THEN <<>>
    ELSE InsertBySimilarity(RankBySimilarity(SubSeq(rows, 1, Len(rows) - 1)),
                            rows[Len(rows)])

\* the database function match_pdf_chunks: threshold and document filter, then
\* the ranking, then the cap of match_count rows
MatchPdfChunks(rows, p) ==
    LET ranked == RankBySimilarity(Matching(rows, p))
    IN  SubSeq(ranked, 1, Min(p.match_count, Len(ranked)))

\* the parameters with the threshold taken for a distance
RpcParamsDistance(query_embedding, limit, threshold, document_id) ==
    [query_embedding |-> query_embedding, match_threshold |-> 100 - threshold,
     match_count |-> limit, filter_document_id |-> document_id]

\* the parameters with the document filter left out
RpcParamsNoFilter(query_embedding, limit, threshold, document_id) ==
    [query_embedding |-> query_embedding, match_threshold |-> threshold,
     match_count |-> limit, filter_document_id |-> NoDoc]

\* similarity_search: the parameters handed to the rpc
RpcParams(query_embedding, limit, threshold, document_id) ==
    [query_embedding |-> query_embedding, match_threshold |-> threshold,
     match_count |-> limit, filter_document_id |-> document_id]

\* a search that also sees a row that no insert has committed
SimilaritySearchDirty(rows, query_embedding, limit, threshold, document_id) ==
    MatchPdfChunks(Append(rows, [id |-> Len(rows) + 1, document_id |-> document_id,
                                 page_number |-> 1, embedding |-> query_embedding]),
                   RpcParams(query_embedding, limit, threshold, document_id))

\* similarity_search on the rows of pdf_chunks: results = response.data
SimilaritySearch(rows, query_embedding, limit, threshold, document_id) ==
    MatchPdfChunks(rows, RpcParams(query_embedding, limit, threshold, document_id))

----------------------------------------------------------------------------
(* Input texts: concatenations of runs of one character *)

RunLens == {30, 50, 51, 400, 800, 1000}
RunChars == {"a", " "}
Runs == RunChars \X RunLens

RECURSIVE Flatten(_)
Flatten(rs) == IF rs = <<>> THEN <<>>
               ELSE Rep(rs[1][1], rs[1][2]) \o Flatten(Tail(rs))

RunSeqs == UNION { [1..k -> Runs] : k \in 1..MaxRuns }
ChunkTexts == { Flatten(rs) : rs \in RunSeqs }

----------------------------------------------------------------------------
(* chunk_text, one loop iteration per step *)

ChunkInit ==
    /\ \E cfg \in ChunkConfigs : ck_size = cfg[1] /\ ck_overlap = cfg[2]
    /\ ck_text \in ChunkTexts
    /\ ck_page = 1
    /\ ck_start = 0
    /\ ck_index = 0
    /\ ck_chunks = <<>>
    /\ ck_pc = "loop"

ChunkIterate ==
    /\ ck_pc = "loop"
    /\ ck_start < Len(ck_text)
    /\ LET st == ChunkBody(ck_size, ck_overlap, ck_text, ck_page,
                           [start |-> ck_start, chunk_index |-> ck_index, chunks |-> ck_chunks])
       IN  /\ ck_start' = st.start
           /\ ck_index' = st.chunk_index
           /\ ck_chunks' = st.chunks
    /\ UNCHANGED <<ck_size, ck_overlap, ck_text, ck_page, ck_pc>>
    /\ UNCHANGED notChunk

ChunkReturn ==
    /\ ck_pc = "loop"
    /\ ~(ck_start < Len(ck_text))
    /\ ck_pc' = "returned"
    /\ UNCHANGED <<ck_size, ck_overlap, ck_text, ck_page, ck_start, ck_index, ck_chunks>>
    /\ UNCHANGED notChunk

ChunkNext == ChunkIterate \/ ChunkReturn

\* no chunk_text call
ChunkIdle ==
    /\ ck_size = PdfChunkSize /\ ck_overlap = PdfOverlap
    /\ ck_text = <<>> /\ ck_page = 1
    /\ ck_start = 0 /\ ck_index = 0 /\ ck_chunks = <<>>
    /\ ck_pc = "idle"

----------------------------------------------------------------------------
(* POST /api/pdf/upload: upload_pdf and PDFProcessor.process_pdf *)

\* generate_embeddings(texts, batch_size=100)
DefaultBatchSize == 100

\* the 20MB limit of upload_pdf
MaxFileSize == 20 * 1024 * 1024

\* the uploaded files: a name (stem, suffix), a size, whether pdfplumber can
\* open the file, and the text pdfplumber extracts from each page
ExamplePdf ==
    [filename |-> <<"example", ".pdf">>, size |-> 4096, readable |-> TRUE,
     pages |-> << Rep("a", 1200), Rep("a", 30) >>]
BoundaryPdf ==
    [filename |-> <<"boundary", ".pdf">>, size |-> 2048, readable |-> TRUE,
     pages |-> << Rep("a", 25) \o <<"NUL">> \o Rep("a", 25),
                  Rep(" ", 3) \o Rep("a", 30) \o <<" ", "\n", " ">> \o Rep("a", 20) >>]
SmallPdf ==
    [filename |-> <<"small", ".pdf">>, size |-> 1024, readable |-> TRUE,
     pages |-> << Rep("a", 60) >>]
NotesPdf ==
    [filename |-> <<"notes", ".pdf">>, size |-> 1536, readable |-> TRUE,
     pages |-> << Rep("a", 60), Rep("a", 61), Rep("a", 62) >>]
CorruptPdf ==
    [filename |-> <<"corrupt", ".pdf">>, size |-> 512, readable |-> FALSE,
     pages |-> <<>>]
NotPdf ==
    [filename |-> <<"readme", ".txt">>, size |-> 256, readable |-> FALSE,
     pages |-> <<>>]
Files == {ExamplePdf, BoundaryPdf, SmallPdf, NotesPdf, CorruptPdf, NotPdf}
FileNamed(filename) == CHOOSE f \in Files : f.filename = filename

Calls == 1..MaxCalls

\* a request slot before its request arrives
IdleCall ==
    [pc |-> "idle", raised_in |-> "", filename |-> <<>>, file_size |-> 0, status |-> 0,
     page_texts |-> <<>>, all_chunks |-> <<>>,
     emb |-> [EmbCall(<<>>, DefaultBatchSize) EXCEPT !.pc = "idle"],
     storage_path |-> <<>>, document_id |-> NoDoc,
     rows |-> <<>>, i |-> 0, total_inserted |-> 0, ret |-> NoReturn]

\* process_pdf raises in the stage it is in: upload_pdf answers 500
Raised(f) == [f EXCEPT !.pc = "raised", !.raised_in = f.pc, !.status = 500]

\* upload_pdf: the file fails the validation and is answered 400
UploadRejected(c, files) ==
    /\ calls[c].pc = "idle"
    /\ \E file \in files :
          /\ (file.filename[2] # ".pdf" \/ file.size > MaxFileSize)
          /\ calls' = [calls EXCEPT ![c] = [@ EXCEPT !.pc = "rejected",
                                                     !.filename = file.filename,
                                                     !.status = 400]]
    /\ UNCHANGED <<storeVars, last_search, notPdf>>

\* upload_pdf: the file passes the validation and process_pdf is entered
UploadAccepted(c, files) ==
    /\ calls[c].pc = "idle"
    /\ \E file \in files :
          /\ ~(file.filename[2] # ".pdf" \/ file.size > MaxFileSize)
          /\ calls' = [calls EXCEPT ![c] = [@ EXCEPT !.pc = "extract",
                                                     !.filename = file.filename,
                                                     !.file_size = file.size]]
    /\ UNCHANGED <<storeVars, last_search, notPdf>>

\* Step 1: extract text
PdfExtract(c) ==
    /\ calls[c].pc = "extract"
    /\ FileNamed(calls[c].filename).readable
    /\ calls' = [calls EXCEPT ![c] =
                    [@ EXCEPT !.pc = "chunk",
                              !.page_texts =
                                  ExtractTextByPage(FileNamed(calls[c].filename).pages)]]
    /\ UNCHANGED <<storeVars, last_search, notPdf>>

PdfExtractFails(c) ==
    /\ calls[c].pc = "extract"
    /\ ~FileNamed(calls[c].filename).readable
    /\ calls' = [calls EXCEPT ![c] = Raised(@)]
    /\ UNCHANGED <<storeVars, last_search, notPdf>>

\* all_chunks after the pages from page number p on are chunked
RECURSIVE ChunkPages(_, _)
ChunkPages(page_texts, p) ==
    IF p > Len(page_texts) THEN <<>>
    ELSE ChunkText(PdfChunkSize, PdfOverlap, page_texts[p], p) \o ChunkPages(page_texts, p + 1)

\* Step 2: chunk text; Step 3 enters generate_embeddings(chunk_texts)
PdfChunk(c) ==
    /\ calls[c].pc = "chunk"
    /\ LET all_chunks == ChunkPages(calls[c].page_texts, 1)
           chunk_texts == [k \in 1..Len(all_chunks) |-> all_chunks[k].text]
       IN  calls' = [calls EXCEPT ![c] =
                        [@ EXCEPT !.pc = "embed",
                                  !.all_chunks = all_chunks,
                                  !.emb = EmbCall(chunk_texts, DefaultBatchSize)]]
    /\ UNCHANGED <<storeVars, last_search, notPdf>>

\* Step 3: one batch of generate_embeddings is answered
PdfEmbedBatch(c) ==
    /\ calls[c].pc = "embed"
    /\ calls[c].emb.pc = "loop"
    /\ calls[c].emb.i < Len(calls[c].emb.texts)
    /\ \E data \in ServiceResponses(EmbBatch(calls[c].emb)) :
          calls' = [calls EXCEPT ![c].emb = EmbBatchOk(@, data)]
    /\ UNCHANGED <<storeVars, last_search, notPdf>>

\* the embedding stage failing in a pipeline that uploads the file first
PdfEmbedFailsAfterUpload(c) ==
    /\ calls[c].pc = "embed"
    /\ calls[c].emb.pc = "loop"
    /\ calls[c].emb.i < Len(calls[c].emb.texts)
    /\ blobs' = Append(blobs, StoragePath(Len(blobs) + 1, calls[c].filename))
    /\ calls' = [calls EXCEPT ![c] = Raised([@ EXCEPT !.emb = EmbBatchFailed(@)])]
    /\ UNCHANGED <<pdf_documents, pdf_chunks, last_search, notPdf>>

\* Step 3: the request of a batch fails and generate_embeddings raises
PdfEmbedFails(c) ==
    /\ calls[c].pc = "embed"
    /\ calls[c].emb.pc = "loop"
    /\ calls[c].emb.i < Len(calls[c].emb.texts)
    /\ calls' = [calls EXCEPT ![c] = Raised([@ EXCEPT !.emb = EmbBatchFailed(@)])]
    /\ UNCHANGED <<storeVars, last_search, notPdf>>

\* Step 3: generate_embeddings returns
PdfEmbedReturn(c) ==
    /\ calls[c].pc = "embed"
    /\ calls[c].emb.pc = "loop"
    /\ ~(calls[c].emb.i < Len(calls[c].emb.texts))
    /\ calls' = [calls EXCEPT ![c] = [@ EXCEPT !.pc = "upload", !.emb = EmbReturned(@)]]
    /\ UNCHANGED <<storeVars, last_search, notPdf>>

\* Step 4: upload_pdf_file and get_public_url
PdfUploadFile(c) ==
    /\ calls[c].pc = "upload"
    /\ LET storage_path == StoragePath(Len(blobs) + 1, calls[c].filename)
       IN  /\ blobs' = Append(blobs, storage_path)
           /\ calls' = [calls EXCEPT ![c] = [@ EXCEPT !.pc = "insert_document",
                                                      !.storage_path = storage_path]]
    /\ UNCHANGED <<pdf_documents, pdf_chunks, last_search, notPdf>>

\* Step 4: upload_pdf_file raises (nothing stored), or get_public_url raises
\* after the upload
PdfUploadFileFails(c) ==
    /\ calls[c].pc = "upload"
    /\ \/ UNCHANGED blobs
       \/ blobs' = Append(blobs, StoragePath(Len(blobs) + 1, calls[c].filename))
    /\ calls' = [calls EXCEPT ![c] = Raised(@)]
    /\ UNCHANGED <<pdf_documents, pdf_chunks, last_search, notPdf>>

\* insert_document answering with the id of the first row of the table
PdfInsertDocumentSharedId(c) ==
    /\ calls[c].pc = "insert_document"
    /\ LET f == calls[c]
           row == DocumentRow(f.filename, f.storage_path, Len(f.page_texts), f.file_size)
           document_id == InsertRows(pdf_documents, <<row>>)[1].id
       IN  /\ pdf_documents' = InsertRows(pdf_documents, <<row>>)
           /\ calls' = [calls EXCEPT ![c] =
                          [@ EXCEPT !.pc = "insert_chunks",
                                    !.document_id = document_id,
                                    !.rows = ChunkRows(document_id, f.all_chunks,
                                                       f.emb.ret.value)]]
    /\ UNCHANGED <<pdf_chunks, blobs, last_search, notPdf>>

\* insert_document; insert_chunks is entered and builds its rows
PdfInsertDocument(c) ==
    /\ calls[c].pc = "insert_document"
    /\ LET f == calls[c]
           row == DocumentRow(f.filename, f.storage_path, Len(f.page_texts), f.file_size)
           document_id == Len(pdf_documents) + 1
       IN  /\ pdf_documents' = InsertRows(pdf_documents, <<row>>)
           /\ calls' = [calls EXCEPT ![c] =
                          [@ EXCEPT !.pc = "insert_chunks",
                                    !.document_id = document_id,
                                    !.rows = ChunkRows(document_id, f.all_chunks,
                                                       f.emb.ret.value)]]
    /\ UNCHANGED <<pdf_chunks, blobs, last_search, notPdf>>

\* a failed insert_document whose error is swallowed: insert_chunks is entered
\* with an id no row carries
PdfInsertDocumentFailsSilently(c) ==
    /\ calls[c].pc = "insert_document"
    /\ calls' = [calls EXCEPT ![c] =
                    [@ EXCEPT !.pc = "insert_chunks",
                              !.document_id = Len(pdf_documents) + 1,
                              !.rows = ChunkRows(Len(pdf_documents) + 1,
                                                 calls[c].all_chunks,
                                                 calls[c].emb.ret.value)]]
    /\ UNCHANGED <<storeVars, last_search, notPdf>>

\* insert_document raises
PdfInsertDocumentFails(c) ==
    /\ calls[c].pc = "insert_document"
    /\ calls' = [calls EXCEPT ![c] = Raised(@)]
    /\ UNCHANGED <<storeVars, last_search, notPdf>>

\* insert_chunks: one batch is written
PdfInsertBatch(c) ==
    /\ calls[c].pc = "insert_chunks"
    /\ calls[c].i < Len(calls[c].rows)
    /\ LET f == calls[c]
           batch == Slice(f.rows, f.i, f.i + InsertBatchSize)
       IN  /\ pdf_chunks' = InsertRows(pdf_chunks, batch)
           /\ calls' = [calls EXCEPT ![c] =
                          [@ EXCEPT !.total_inserted = @ + Len(batch),
                                    !.i = @ + InsertBatchSize]]
    /\ UNCHANGED <<pdf_documents, blobs, last_search, notPdf>>

\* a failed batch that takes the batches written before it back
PdfInsertBatchRollsBack(c) ==
    /\ calls[c].pc = "insert_chunks"
    /\ calls[c].i < Len(calls[c].rows)
    /\ pdf_chunks' = SelectSeq(pdf_chunks, LAMBDA r : r.document_id # calls[c].document_id)
    /\ calls' = [calls EXCEPT ![c] = Raised(@)]
    /\ UNCHANGED <<pdf_documents, blobs, last_search, notPdf>>

\* insert_chunks: the write of a batch fails and insert_chunks raises
PdfInsertBatchFails(c) ==
    /\ calls[c].pc = "insert_chunks"
    /\ calls[c].i < Len(calls[c].rows)
    /\ calls' = [calls EXCEPT ![c] = Raised(@)]
    /\ UNCHANGED <<storeVars, last_search, notPdf>>

\* the dict process_pdf returns
ProcessPdfResult(f) ==
    [document_id |-> f.document_id, filename |-> f.filename,
     page_count |-> Len(f.page_texts), chunk_count |-> f.total_inserted,
     file_size |-> f.file_size, status |-> "success"]

\* insert_chunks returns total_inserted, process_pdf returns, upload_pdf
\* answers 200
PdfReturn(c) ==
    /\ calls[c].pc = "insert_chunks"
    /\ ~(calls[c].i < Len(calls[c].rows))
    /\ calls' = [calls EXCEPT ![c] = [@ EXCEPT !.pc = "done", !.status = 200,
                                               !.ret = Returned(ProcessPdfResult(calls[c]))]]
    /\ UNCHANGED <<storeVars, last_search, notPdf>>

\* the steps of the upload request c, for files drawn from `files`
PdfStep(c, files) ==
    \/ UploadRejected(c, files)
    \/ UploadAccepted(c, files)
    \/ PdfExtract(c)
    \/ PdfExtractFails(c)
    \/ PdfChunk(c)
    \/ PdfEmbedBatch(c)
    \/ PdfEmbedFails(c)
    \/ PdfEmbedReturn(c)
    \/ PdfUploadFile(c)
    \/ PdfUploadFileFails(c)
    \/ PdfInsertDocument(c)
    \/ PdfInsertDocumentFails(c)
    \/ PdfInsertBatch(c)
    \/ PdfInsertBatchFails(c)
    \/ PdfReturn(c)

\* the steps of the upload requests
PdfNext(files) == \E c \in Calls : PdfStep(c, files)

----------------------------------------------------------------------------
(* POST /api/pdf/search: search_pdfs *)

\* similarity thresholds, in hundredths (SearchRequest defaults to 0.7)
Thresholds == {20, 70, 90}

\* the query strings
Queries == { <<"a">>, <<"a", "b">> }

NoSearch ==
    [status |-> 0, query |-> <<>>, limit |-> 0, threshold |-> 0,
     document_id |-> NoDoc, results |-> <<>>, count |-> 0]

\* generate_embeddings([query])[0], the service answering with data
QueryEmbedding(query, data) ==
    EmbReturned(EmbBatchOk(EmbCall(<<query>>, DefaultBatchSize), data)).ret.value[1]

SearchPdfs ==
    /\ last_search.status = 0
    /\ \E query \in Queries, limit \in 1..MaxLimit, threshold \in Thresholds,
          document_id \in {NoDoc} \cup Calls :
        \E data \in ServiceResponses(<<query>>) :
          LET results == SimilaritySearch(pdf_chunks, QueryEmbedding(query, data),
                                          limit, threshold, document_id)
          IN  last_search' = [status |-> 200, query |-> query, limit |-> limit,
                              threshold |-> threshold, document_id |-> document_id,
                              results |-> results, count |-> Len(results)]
    /\ UNCHANGED <<storeVars, calls, notPdf>>

\* the embedding request or the rpc fails: 500
SearchPdfsFails ==
    /\ last_search.status = 0
    /\ \E query \in Queries, limit \in 1..MaxLimit, threshold \in Thresholds,
          document_id \in {NoDoc} \cup Calls :
          last_search' = [status |-> 500, query |-> query, limit |-> limit,
                          threshold |-> threshold, document_id |-> document_id,
                          results |-> <<>>, count |-> 0]
    /\ UNCHANGED <<storeVars, calls, notPdf>>

\* the response is sent
SearchDelivered ==
    /\ last_search.status # 0
    /\ last_search' = NoSearch
    /\ UNCHANGED <<storeVars, calls, notPdf>>

\* an empty project with no request received
StoreInit ==
    /\ pdf_documents = <<>>
    /\ pdf_chunks = <<>>
    /\ blobs = <<>>

PdfInit ==
    /\ calls = [c \in Calls |-> IdleCall]
    /\ last_search = NoSearch

----------------------------------------------------------------------------
(* POST /api/pdf/canvas-link: upsert_pdf_canvas_link *)

\* the canvas shapes and the rooms of the requests; roomId is optional
Shapes == {"shape:a", "shape:b"}
NoRoom == "None"
Rooms == {NoRoom, "room-1"}

\* PdfCanvasLinkRequest
LinkRequests == [shapeId : Shapes, documentId : 1..MaxCalls, roomId : Rooms]

\* the rows of the table for one shape
LinksOf(links, shape_id) == SelectSeq(links, LAMBDA l : l.shape_id = shape_id)

\* storage.upsert_pdf_canvas_link: the row of the shape is overwritten, or a row
\* is added when the shape has none (the unique key is the shape id); the row
\* is returned
UpsertPdfCanvasLink(links, shape_id, document_id, room_id) ==
    LET link == [shape_id |-> shape_id, document_id |-> document_id,
                 room_id |-> room_id]
    IN  IF \E k \in 1..Len(links) : links[k].shape_id = shape_id
        THEN [k \in 1..Len(links) |->
                 IF links[k].shape_id = shape_id THEN link ELSE links[k]]
        ELSE Append(links, link)

\* a handler that never finds the document missing
DocumentNeverMissing(document) == FALSE

\* `if not document`
DocumentMissing(document) == document = <<>>

\* a handler that files the link under the room of the request
LinkArgsKeyedByRoom(request) ==
    [shape_id |-> request.roomId, document_id |-> request.documentId,
     room_id |-> request.roomId]

\* the keyword arguments of storage.upsert_pdf_canvas_link
LinkArgs(request) ==
    [shape_id |-> request.shapeId, document_id |-> request.documentId,
     room_id |-> request.roomId]

NoLinkResponse == [status |-> 0, link |-> <<>>]

\* the document is not found: 404
LinkNotFound ==
    /\ \E request \in LinkRequests :
          /\ DocumentMissing(GetDocument(pdf_documents, request.documentId))
          /\ link_resp' = [status |-> 404, link |-> <<>>]
    /\ UNCHANGED <<pdf_canvas_links, link_log, notCanvas>>

\* the document is found and the link is written: {"success": True, "link": link}
LinkUpserted ==
    /\ Len(link_log) < MaxLinks
    /\ \E request \in LinkRequests :
          /\ ~DocumentMissing(GetDocument(pdf_documents, request.documentId))
          /\ LET args == LinkArgs(request)
                 links == UpsertPdfCanvasLink(pdf_canvas_links, args.shape_id,
                                              args.document_id, args.room_id)
             IN  /\ pdf_canvas_links' = links
                 /\ link_resp' = [status |-> 200,
                                  link |-> LinksOf(links, args.shape_id)]
          /\ link_log' = Append(link_log, [shape_id |-> request.shapeId,
                                           document_id |-> request.documentId])
    /\ UNCHANGED notCanvas

\* get_document or upsert_pdf_canvas_link raises: 500
LinkFails ==
    /\ link_resp' = [status |-> 500, link |-> <<>>]
    /\ UNCHANGED <<pdf_canvas_links, link_log, notCanvas>>

CanvasInit ==
    /\ pdf_canvas_links = <<>>
    /\ link_resp = NoLinkResponse
    /\ link_log = <<>>

----------------------------------------------------------------------------
(* POST /api/handwriting-upload: upload_handwriting_image, and the          *)
(* background task HandwritingProcessor.process_note                        *)

\* the uploaded images: the content type, the number of bytes, and the text
\* the OCR service reads in the image
InkPng == [content_type |-> "image/png", size |-> 2048, text |-> Rep("a", 60)]
DoodleJpg == [content_type |-> "image/jpeg", size |-> 1024, text |-> Rep("a", 30)]
EmptyPng == [content_type |-> "image/png", size |-> 0, text |-> <<>>]
SketchGif == [content_type |-> "image/gif", size |-> 512, text |-> <<>>]

\* frameId is optional; str(uuid.uuid4()) is a fresh identifier
NoFrame == ""
Uuid4(h) == <<"uuid:1", "uuid:2", "uuid:3", "uuid:4">>[h]

\* the upload requests: the file and the frameId form field
HwRequests ==
    { [file |-> InkPng, frameId |-> "frame:1"],
      [file |-> DoodleJpg, frameId |-> NoFrame],
      [file |-> EmptyPng, frameId |-> "frame:1"],
      [file |-> SketchGif, frameId |-> NoFrame] }

\* normalized_frame_id = frameId or str(uuid.uuid4())
NormalizedFrameId(frameId, h) == IF frameId = NoFrame THEN Uuid4(h) ELSE frameId

\* a note inserted as already completed
NoteRowCompleted(frame_id, storage_path, room_id, status) ==
    [frame_id |-> frame_id, storage_path |-> storage_path, room_id |-> room_id,
     status |-> "completed"]

\* the row insert_handwriting_note writes; the bounds, the stroke ids, the group
\* id and the timestamp of the request are stored with it and read by no step
NoteRow(frame_id, storage_path, room_id, status) ==
    [frame_id |-> frame_id, storage_path |-> storage_path, room_id |-> room_id,
     status |-> status]

Notes == 1..MaxNotes
Invocations == 1..MaxInvocations

\* a request slot before its request arrives
IdleUpload ==
    [status |-> 0, note_id |-> 0, frameId |-> NoFrame, storage_path |-> <<>>,
     note_status |-> ""]

\* an invocation of process_note(note_id, image_bytes) that was not made
IdleTask ==
    [pc |-> "idle", image |-> EmptyPng, text |-> <<>>, chunks |-> <<>>,
     embeddings |-> <<>>, outcome |-> ""]

\* the content type is allowed and image_bytes is not empty
ImageAccepted(image) ==
    /\ image.content_type \in {"image/png", "image/jpeg", "image/jpg"}
    /\ image.size # 0

ValidRequests == { request \in HwRequests : ImageAccepted(request.file) }

\* the content type or the emptiness check fails: 400
HwRejected(h) ==
    /\ hw_calls[h].status = 0
    /\ \E request \in HwRequests :
          /\ ~ImageAccepted(request.file)
          /\ hw_calls' = [hw_calls EXCEPT ![h] = [@ EXCEPT !.status = 400]]
    /\ UNCHANGED <<handwriting_notes, handwriting_chunks, hw_blobs, note_tasks, notNote>>

\* storage.upload_handwriting_image raises: 500
HwUploadImageFails(h) ==
    /\ hw_calls[h].status = 0
    /\ \E request \in ValidRequests :
          hw_calls' = [hw_calls EXCEPT ![h] = [@ EXCEPT !.status = 500]]
    /\ UNCHANGED <<handwriting_notes, handwriting_chunks, hw_blobs, note_tasks, notNote>>

\* the image is stored and insert_handwriting_note raises: 500
HwInsertNoteFails(h) ==
    /\ hw_calls[h].status = 0
    /\ \E request \in ValidRequests :
          LET frame_id == NormalizedFrameId(request.frameId, h)
              storage_path == StoragePath(h, <<frame_id, ".png">>)
          IN  /\ hw_blobs' = Append(hw_blobs, storage_path)
              /\ hw_calls' = [hw_calls EXCEPT ![h] =
                                 [@ EXCEPT !.status = 500, !.frameId = frame_id,
                                           !.storage_path = storage_path]]
    /\ UNCHANGED <<handwriting_notes, handwriting_chunks, note_tasks, notNote>>

\* the image and the note are stored, the task is added, and get_public_url
\* raises: 500, and the tasks of a request that raised are not run
HwPublicUrlFails(h) ==
    /\ hw_calls[h].status = 0
    /\ \E request \in ValidRequests :
          LET frame_id == NormalizedFrameId(request.frameId, h)
              storage_path == StoragePath(h, <<frame_id, ".png">>)
              row == NoteRow(frame_id, storage_path, "default", "processing")
          IN  /\ hw_blobs' = Append(hw_blobs, storage_path)
              /\ handwriting_notes' = InsertRows(handwriting_notes, <<row>>)
              /\ hw_calls' = [hw_calls EXCEPT ![h] =
                                 [@ EXCEPT !.status = 500, !.frameId = frame_id,
                                           !.note_id = Len(handwriting_notes) + 1,
                                           !.storage_path = storage_path]]
    /\ UNCHANGED <<handwriting_chunks, note_tasks, notNote>>

\* the image and the note are stored, process_note is scheduled, and the
\* response carries the note id and "status": "processing"
HwAccepted(h) ==
    /\ hw_calls[h].status = 0
    /\ \E request \in ValidRequests :
          LET frame_id == NormalizedFrameId(request.frameId, h)
              storage_path == StoragePath(h, <<frame_id, ".png">>)
              row == NoteRow(frame_id, storage_path, "default", "processing")
              note_id == Len(handwriting_notes) + 1
          IN  /\ hw_blobs' = Append(hw_blobs, storage_path)
              /\ handwriting_notes' = InsertRows(handwriting_notes, <<row>>)
              /\ note_tasks' = [note_tasks EXCEPT ![note_id][1] =
                                   [@ EXCEPT !.pc = "scheduled", !.image = request.file]]
              /\ hw_calls' = [hw_calls EXCEPT ![h] =
                                 [@ EXCEPT !.status = 200, !.frameId = frame_id,
                                           !.note_id = note_id,
                                           !.storage_path = storage_path,
                                           !.note_status = "processing"]]
    /\ UNCHANGED <<handwriting_chunks, notNote>>

\* the status a status update leaves in the row, whatever the row held
StatusOverwritten(status, outcome) == outcome

\* a status update that is lost
StatusKept(status, outcome) == status

\* the status update of process_note: a note leaves "processing" once
NextStatus(status, outcome) == IF status = "processing" THEN outcome ELSE status

SetStatus(notes, note_id, outcome) ==
    [notes EXCEPT ![note_id].status = NextStatus(@, outcome)]

\* the rows process_note writes for the chunks of a note
NoteChunkRows(note_id, chunks, embeddings) ==
    [k \in 1..Min(Len(chunks), Len(embeddings)) |->
        [note_id |-> note_id, chunk_index |-> chunks[k].chunk_index,
         chunk_text |-> chunks[k].text, embedding |-> embeddings[k]]]

\* the task is invoked once more for a note whose task was already invoked
ProcessNoteInvokedAgain(n, k) ==
    /\ k > 1
    /\ note_tasks[n][k].pc = "idle"
    /\ note_tasks[n][k - 1].pc # "idle"
    /\ note_tasks' = [note_tasks EXCEPT ![n][k] =
                         [@ EXCEPT !.pc = "scheduled",
                                   !.image = note_tasks[n][1].image]]
    /\ UNCHANGED <<handwriting_notes, handwriting_chunks, hw_blobs, hw_calls, notNote>>

\* the task starts: a note that is no longer "processing" is left alone
ProcessNoteBegin(n, k) ==
    /\ note_tasks[n][k].pc = "scheduled"
    /\ note_tasks' = [note_tasks EXCEPT ![n][k] =
                         IF handwriting_notes[n].status = "processing"
                         THEN [@ EXCEPT !.pc = "ocr"]
                         ELSE [@ EXCEPT !.pc = "done", !.outcome = "skipped"]]
    /\ UNCHANGED <<handwriting_notes, handwriting_chunks, hw_blobs, hw_calls, notNote>>

\* OCR
ProcessNoteOcr(n, k) ==
    /\ note_tasks[n][k].pc = "ocr"
    /\ note_tasks' = [note_tasks EXCEPT ![n][k] =
                         [@ EXCEPT !.pc = "chunk",
                                   !.text = note_tasks[n][k].image.text]]
    /\ UNCHANGED <<handwriting_notes, handwriting_chunks, hw_blobs, hw_calls, notNote>>

\* Chunker
ProcessNoteChunk(n, k) ==
    /\ note_tasks[n][k].pc = "chunk"
    /\ note_tasks' = [note_tasks EXCEPT ![n][k] =
                         [@ EXCEPT !.pc = "embed",
                                   !.chunks = ChunkText(PdfChunkSize, PdfOverlap,
                                                        note_tasks[n][k].text, 1)]]
    /\ UNCHANGED <<handwriting_notes, handwriting_chunks, hw_blobs, hw_calls, notNote>>

\* Embedding Client: generate_embeddings on the texts of the chunks, which fit
\* one batch
ProcessNoteEmbed(n, k) ==
    /\ note_tasks[n][k].pc = "embed"
    /\ LET chunks == note_tasks[n][k].chunks
           texts == [j \in 1..Len(chunks) |-> chunks[j].text]
           call == EmbCall(texts, DefaultBatchSize)
       IN  \E data \in ServiceResponses(texts) :
              note_tasks' = [note_tasks EXCEPT ![n][k] =
                  [@ EXCEPT !.pc = "write",
                            !.embeddings =
                                IF texts = <<>> THEN EmbReturned(call).ret.value
                                ELSE EmbReturned(EmbBatchOk(call, data)).ret.value]]
    /\ UNCHANGED <<handwriting_notes, handwriting_chunks, hw_blobs, hw_calls, notNote>>

\* Knowledge Store writes
ProcessNoteWrite(n, k) ==
    /\ note_tasks[n][k].pc = "write"
    /\ handwriting_chunks' =
          InsertRows(handwriting_chunks,
                     NoteChunkRows(n, note_tasks[n][k].chunks,
                                   note_tasks[n][k].embeddings))
    /\ note_tasks' = [note_tasks EXCEPT ![n][k] = [@ EXCEPT !.pc = "status"]]
    /\ UNCHANGED <<handwriting_notes, hw_blobs, hw_calls, notNote>>

\* a stage errors: OCR, the embedding request, the write of the chunks (no row
\* is written), or the status update that follows the write
ProcessNoteStageFails(n, k) ==
    /\ note_tasks[n][k].pc \in {"ocr", "embed", "write", "status"}
    /\ note_tasks' = [note_tasks EXCEPT ![n][k] = [@ EXCEPT !.pc = "failing"]]
    /\ UNCHANGED <<handwriting_notes, handwriting_chunks, hw_blobs, hw_calls, notNote>>

\* status update after the writes
ProcessNoteCompleted(n, k) ==
    /\ note_tasks[n][k].pc = "status"
    /\ handwriting_notes' = SetStatus(handwriting_notes, n, "completed")
    /\ note_tasks' = [note_tasks EXCEPT ![n][k] =
                         [@ EXCEPT !.pc = "done", !.outcome = "completed"]]
    /\ UNCHANGED <<handwriting_chunks, hw_blobs, hw_calls, notNote>>

\* status update after a stage errored
ProcessNoteFailed(n, k) ==
    /\ note_tasks[n][k].pc = "failing"
    /\ handwriting_notes' = SetStatus(handwriting_notes, n, "failed")
    /\ note_tasks' = [note_tasks EXCEPT ![n][k] =
                         [@ EXCEPT !.pc = "done", !.outcome = "failed"]]
    /\ UNCHANGED <<handwriting_chunks, hw_blobs, hw_calls, notNote>>

\* the steps of the upload request h
HwStep(h) ==
    \/ HwRejected(h)
    \/ HwUploadImageFails(h)
    \/ HwInsertNoteFails(h)
    \/ HwPublicUrlFails(h)
    \/ HwAccepted(h)

\* the steps invocation k of process_note for note n takes once it is scheduled
ProcessNoteStep(n, k) ==
    \/ ProcessNoteBegin(n, k)
    \/ ProcessNoteOcr(n, k)
    \/ ProcessNoteChunk(n, k)
    \/ ProcessNoteEmbed(n, k)
    \/ ProcessNoteWrite(n, k)
    \/ ProcessNoteStageFails(n, k)
    \/ ProcessNoteCompleted(n, k)
    \/ ProcessNoteFailed(n, k)

NoteNext ==
    \/ \E h \in Notes : HwStep(h)
    \/ \E n \in Notes, k \in Invocations :
          \/ ProcessNoteInvokedAgain(n, k)
          \/ ProcessNoteStep(n, k)

NoteInit ==
    /\ handwriting_notes = <<>>
    /\ handwriting_chunks = <<>>
    /\ hw_blobs = <<>>
    /\ hw_calls = [h \in Notes |-> IdleUpload]
    /\ note_tasks = [n \in Notes |-> [k \in Invocations |-> IdleTask]]

----------------------------------------------------------------------------
(* Retrieval by canvas selection: the Context Aggregator of the storage     *)
(* (search_context_for_shape_ids, get_context_for_shape_ids) and            *)
(* POST /api/ask, ask_stream                                                *)

\* a sequence without its repeated elements, first occurrences kept
RECURSIVE Dedup(_)
Dedup(s) ==
    IF s = <<>> THEN <<>>
    ELSE LET rest == Dedup(SubSeq(s, 1, Len(s) - 1))
         IN  IF \E k \in 1..Len(rest) : rest[k] = s[Len(s)]
             THEN rest ELSE Append(rest, s[Len(s)])

\* the documents the shapes are linked to, in the order of the shapes
RECURSIVE LinkedDocuments(_, _)
LinkedDocuments(links, shape_ids) ==
    IF shape_ids = <<>> THEN <<>>
    ELSE LET rows == LinksOf(links, shape_ids[1])
         IN  [k \in 1..Len(rows) |-> rows[k].document_id]
                 \o LinkedDocuments(links, Tail(shape_ids))

\* the notes captured from the frames among the shapes, in the order of the shapes
RECURSIVE FrameNotes(_, _)
FrameNotes(notes, shape_ids) ==
    IF shape_ids = <<>> THEN <<>>
    ELSE LET rows == SelectSeq(notes, LAMBDA n : n.frame_id = shape_ids[1])
         IN  [k \in 1..Len(rows) |-> rows[k].id] \o FrameNotes(notes, Tail(shape_ids))

\* a shape id that resolves to nothing taken for every note
ResolveShapesLenient(links, notes, shape_ids) ==
    [documents |-> Dedup(LinkedDocuments(links, shape_ids)),
     notes |-> IF shape_ids = <<>> THEN <<>> ELSE [k \in 1..Len(notes) |-> notes[k].id]]

\* step 1: each shape id resolves to a linked document or to a note; a shape id
\* that resolves to neither adds nothing
ResolveShapes(links, notes, shape_ids) ==
    [documents |-> Dedup(LinkedDocuments(links, shape_ids)),
     notes |-> Dedup(FrameNotes(notes, shape_ids))]

\* the equivalent of match_pdf_chunks over the chunks of one note
NoteMatching(rows, query_embedding, threshold, note_id) ==
    LET own == SelectSeq(rows, LAMBDA r :
                   /\ r.note_id = note_id
                   /\ Similarity(query_embedding, r.embedding) >= threshold)
    IN  [k \in 1..Len(own) |->
            [id |-> own[k].id, note_id |-> note_id,
             similarity |-> Similarity(query_embedding, own[k].embedding)]]

MatchHandwritingChunks(rows, query_embedding, limit, threshold, note_id) ==
    LET ranked == RankBySimilarity(NoteMatching(rows, query_embedding, threshold, note_id))
    IN  SubSeq(ranked, 1, Min(limit, Len(ranked)))

\* the entries of the result: the source type, the source, the chunk and its
\* similarity
PdfEntry(row) ==
    [source_type |-> "pdf", source_id |-> row.document_id,
     page_number |-> row.page_number, chunk_id |-> row.id,
     similarity |-> row.similarity]
HandwritingEntry(row) ==
    [source_type |-> "handwriting", source_id |-> row.note_id,
     page_number |-> 0, chunk_id |-> row.id, similarity |-> row.similarity]

\* step 2: similarity_search scoped to each resolved document
RECURSIVE PdfContext(_, _, _, _, _)
PdfContext(documents, pdf_rows, query_embedding, limit, threshold) ==
    IF documents = <<>> THEN <<>>
    ELSE LET found == SimilaritySearch(pdf_rows, query_embedding, limit,
                                       threshold, documents[1])
         IN  [k \in 1..Len(found) |-> PdfEntry(found[k])]
                 \o PdfContext(Tail(documents), pdf_rows, query_embedding,
                               limit, threshold)

\* step 3: the scoped search over the chunks of each resolved note
RECURSIVE HandwritingContext(_, _, _, _, _)
HandwritingContext(note_ids, hw_rows, query_embedding, limit, threshold) ==
    IF note_ids = <<>> THEN <<>>
    ELSE LET found == MatchHandwritingChunks(hw_rows, query_embedding, limit,
                                              threshold, note_ids[1])
         IN  [k \in 1..Len(found) |-> HandwritingEntry(found[k])]
                 \o HandwritingContext(Tail(note_ids), hw_rows, query_embedding,
                                       limit, threshold)

\* the tables the aggregator reads
Tables ==
    [links |-> pdf_canvas_links, notes |-> handwriting_notes,
     pdf_rows |-> pdf_chunks, hw_rows |-> handwriting_chunks]

\* step 4 left out: the results of the sources one after the other
ContextUnmerged(db, shape_ids, query_embedding, args) ==
    LET sources == ResolveShapes(db.links, db.notes, shape_ids)
    IN  PdfContext(sources.documents, db.pdf_rows, query_embedding,
                   args.pdf_limit_per_document, args.threshold)
        \o HandwritingContext(sources.notes, db.hw_rows, query_embedding,
                              args.handwriting_limit_per_note, args.threshold)

\* the caps of the two kinds of source exchanged
ContextCapsSwapped(db, shape_ids, query_embedding, args) ==
    RankBySimilarity(ContextUnmerged(db, shape_ids, query_embedding,
        [args EXCEPT !.pdf_limit_per_document = args.handwriting_limit_per_note,
                     !.handwriting_limit_per_note = args.pdf_limit_per_document]))

\* search_context_for_shape_ids: the results of all sources merged, sorted by
\* similarity descending
SearchContextForShapeIds(db, shape_ids, query_embedding, args) ==
    RankBySimilarity(ContextUnmerged(db, shape_ids, query_embedding, args))

\* get_context_for_shape_ids: the chunks of the resolved sources, unranked and
\* without a similarity
GetContextForShapeIds(db, shape_ids) ==
    LET sources == ResolveShapes(db.links, db.notes, shape_ids)
        pdf == SelectSeq(db.pdf_rows, LAMBDA r :
                   \E k \in 1..Len(sources.documents) : sources.documents[k] = r.document_id)
        hw == SelectSeq(db.hw_rows, LAMBDA r :
                   \E k \in 1..Len(sources.notes) : sources.notes[k] = r.note_id)
    IN  [k \in 1..Len(pdf) |->
            [source_type |-> "pdf", source_id |-> pdf[k].document_id,
             page_number |-> pdf[k].page_number, chunk_id |-> pdf[k].id]]
        \o [k \in 1..Len(hw) |->
            [source_type |-> "handwriting", source_id |-> hw[k].note_id,
             page_number |-> 0, chunk_id |-> hw[k].id]]

\* the caps and the threshold ask_stream asks for
AskArgs ==
    [handwriting_limit_per_note |-> 5, pdf_limit_per_document |-> 5,
     threshold |-> 20]

\* the caps of a direct call of search_context_for_shape_ids
CapPairs == { <<1, MaxLimit>>, <<MaxLimit, 1>> }

NoAsk ==
    [kind |-> "none", status |-> 0, path |-> "", shape_ids |-> <<>>,
     query_embedding |-> 0, args |-> AskArgs, entries |-> <<>>]

\* storage.search_context_for_shape_ids called with caps and a threshold of
\* the caller's choice
ContextSearch(selections, prompts) ==
    /\ \E shape_ids \in selections, prompt \in prompts, caps \in CapPairs,
          threshold \in Thresholds :
        \E data \in ServiceResponses(<<prompt>>) :
          LET args == [handwriting_limit_per_note |-> caps[1],
                       pdf_limit_per_document |-> caps[2],
                       threshold |-> threshold]
              query_embedding == QueryEmbedding(prompt, data)
          IN  ask' = [kind |-> "search_context", status |-> 200, path |-> "ranked",
                      shape_ids |-> shape_ids, query_embedding |-> query_embedding,
                      args |-> args,
                      entries |-> SearchContextForShapeIds(Tables, shape_ids,
                                                           query_embedding, args)]
    /\ UNCHANGED notAsk

\* ask_stream without selected shapes: no retrieval, the streaming response
AskWithoutSelection ==
    /\ ask' = [NoAsk EXCEPT !.kind = "ask", !.status = 200]
    /\ UNCHANGED notAsk

\* ask_stream: the query embedding and the ranked search succeed
AskRanked(selections, prompts) ==
    /\ \E shape_ids \in selections, prompt \in prompts :
        \E data \in ServiceResponses(<<prompt>>) :
          LET query_embedding == QueryEmbedding(prompt, data)
          IN  /\ shape_ids # <<>>
              /\ ask' = [kind |-> "ask", status |-> 200, path |-> "ranked",
                         shape_ids |-> shape_ids,
                         query_embedding |-> query_embedding, args |-> AskArgs,
                         entries |-> SearchContextForShapeIds(Tables, shape_ids,
                                                              query_embedding, AskArgs)]
    /\ UNCHANGED notAsk

\* ask_stream: generate_embeddings or the ranked search raises, and the except
\* clause takes the entries of get_context_for_shape_ids
AskFallback(selections) ==
    /\ \E shape_ids \in selections :
          /\ shape_ids # <<>>
          /\ ask' = [kind |-> "ask", status |-> 200, path |-> "fallback",
                     shape_ids |-> shape_ids, query_embedding |-> 0,
                     args |-> AskArgs,
                     entries |-> GetContextForShapeIds(Tables, shape_ids)]
    /\ UNCHANGED notAsk

\* ask_stream: get_context_for_shape_ids raises inside the except clause, and
\* the exception leaves the handler: 500
AskFallbackRaises(selections) ==
    /\ \E shape_ids \in selections :
          /\ shape_ids # <<>>
          /\ ask' = [kind |-> "ask", status |-> 500, path |-> "fallback",
                     shape_ids |-> shape_ids, query_embedding |-> 0,
                     args |-> AskArgs, entries |-> <<>>]
    /\ UNCHANGED notAsk

AskInit == ask = NoAsk

\* the frame image of a note already processed, and the project after its
\* upload was answered and its task completed
PagePng == [content_type |-> "image/png", size |-> 4096, text |-> Rep("a", 855)]

NotedInit ==
    LET frame_id == "frame:1"
        storage_path == StoragePath(1, <<frame_id, ".png">>)
        row == NoteRow(frame_id, storage_path, "default", "processing")
        chunks == ChunkText(PdfChunkSize, PdfOverlap, PagePng.text, 1)
        embeddings == [k \in 1..Len(chunks) |-> EmbedOf(chunks[k].text)]
    IN  /\ handwriting_notes = SetStatus(InsertRows(<<>>, <<row>>), 1, "completed")
        /\ handwriting_chunks = InsertRows(<<>>, NoteChunkRows(1, chunks, embeddings))
        /\ hw_blobs = <<storage_path>>
        /\ hw_calls = [h \in Notes |->
                          IF h = 1
                          THEN [IdleUpload EXCEPT !.status = 200, !.note_id = 1,
                                                  !.frameId = frame_id,
                                                  !.storage_path = storage_path,
                                                  !.note_status = "processing"]
                          ELSE IdleUpload]
        /\ note_tasks = [n \in Notes |-> [k \in Invocations |->
                          IF n = 1 /\ k = 1
                          THEN [pc |-> "done", image |-> PagePng, text |-> PagePng.text,
                                chunks |-> chunks, embeddings |-> embeddings,
                                outcome |-> "completed"]
                          ELSE IdleTask]]

\* the selections and the prompts of the retrieval requests
Selections ==
    { <<"shape:a">>, <<"shape:none">>, <<"shape:a", "frame:1">>,
      <<"shape:none", "frame:1", "shape:a">> }

----------------------------------------------------------------------------
(* PDFExtractor._clean_text on generated strings *)

CleanIdle ==
    /\ cl_text = <<>>
    /\ cl_out = NoReturn

\* the characters of the generated page texts
CleanChars == {"a", " ", "\n", "NUL", "REPL"}

\* the page texts of at most MaxCleanLen characters
CleanTexts == UNION {[1..n -> CleanChars] : n \in 0..MaxCleanLen}

CleanInit ==
    /\ cl_text \in CleanTexts
    /\ cl_out = NoReturn

\* _clean_text(text) returns
CleanReturn ==
    /\ ~cl_out.returned
    /\ cl_out' = Returned(CleanText(cl_text))
    /\ UNCHANGED <<cl_text, notClean>>

----------------------------------------------------------------------------
(* insert_chunks on generated lists of chunks *)

\* the numbers of chunks handed to insert_chunks
InsertSizes == {0, 1, 50, 51, 101}

\* n chunks of one page with their embeddings
BulkChunks(n) ==
    [k \in 1..n |-> ChunkRecord(<<"a">>, 1, k - 1, (k - 1) * (PdfChunkSize - PdfOverlap),
                                (k - 1) * (PdfChunkSize - PdfOverlap) + PdfChunkSize)]
BulkEmbeddings(n) == [k \in 1..n |-> k % 7]

\* process_pdf of call c at its Step 6, with n chunks to store for document c
BulkCall(c, n) ==
    [IdleCall EXCEPT !.pc = "insert_chunks",
                     !.filename = <<"bulk", ".pdf">>,
                     !.file_size = 4096,
                     !.storage_path = StoragePath(c, <<"bulk", ".pdf">>),
                     !.document_id = c,
                     !.all_chunks = BulkChunks(n),
                     !.rows = ChunkRows(c, BulkChunks(n), BulkEmbeddings(n))]

\* every call is about to store its chunks, its document row inserted
InsertInit ==
    /\ \E sizes \in [Calls -> InsertSizes] :
          calls = [c \in Calls |-> BulkCall(c, sizes[c])]
    /\ last_search = NoSearch
    /\ pdf_documents =
          InsertRows(<<>>, [c \in Calls |->
              DocumentRow(<<"bulk", ".pdf">>, StoragePath(c, <<"bulk", ".pdf">>), 1, 4096)])
    /\ pdf_chunks = <<>>
    /\ blobs = [c \in Calls |-> StoragePath(c, <<"bulk", ".pdf">>)]

InsertNext ==
    \E c \in Calls :
        \/ PdfInsertBatch(c)
        \/ PdfInsertBatchFails(c)
        \/ PdfReturn(c)

----------------------------------------------------------------------------
(* chunk_text under every kind of configuration __init__ takes *)

\* __init__ stores chunk_size and overlap as given: the pair of PDFProcessor,
\* and a pair whose overlap equals the chunk size
LoopConfigs == { <<PdfChunkSize, PdfOverlap>>, <<100, 100>> }

LoopInit ==
    /\ \E cfg \in LoopConfigs : ck_size = cfg[1] /\ ck_overlap = cfg[2]
    /\ ck_text \in ChunkTexts
    /\ ck_page = 1
    /\ ck_start = 0
    /\ ck_index = 0
    /\ ck_chunks = <<>>
    /\ ck_pc = "loop"

\* one iteration of the loop; a call is followed for MaxEmitted chunks
LoopIterate ==
    /\ Len(ck_chunks) < MaxEmitted
    /\ ChunkIterate

LoopNext == LoopIterate \/ ChunkReturn

----------------------------------------------------------------------------
(* Specifications *)

\* one chunk_text call on a generated text
InitChunk == ChunkInit /\ EmbedIdle /\ StoreInit /\ PdfInit /\ CanvasInit /\ NoteInit /\ AskInit /\ CleanIdle
SpecChunk == InitChunk /\ [][ChunkNext]_vars

\* one generate_embeddings call on a generated list of strings
InitEmbed == EmbedInit /\ ChunkIdle /\ StoreInit /\ PdfInit /\ CanvasInit /\ NoteInit /\ AskInit /\ CleanIdle
SpecEmbed == InitEmbed /\ [][EmbedNext]_vars

\* concurrent upload requests against an empty project
InitPdf == ChunkIdle /\ EmbedIdle /\ StoreInit /\ PdfInit /\ CanvasInit /\ NoteInit /\ AskInit /\ CleanIdle
NextPdf == PdfNext({ExamplePdf, BoundaryPdf, CorruptPdf, NotPdf})
SpecPdf == InitPdf /\ [][NextPdf]_vars

\* search requests racing the upload requests
InitSearch == ChunkIdle /\ EmbedIdle /\ StoreInit /\ PdfInit /\ CanvasInit /\ NoteInit /\ AskInit /\ CleanIdle
NextSearch ==
    \/ PdfNext({NotesPdf, SmallPdf, CorruptPdf, NotPdf})
    \/ SearchPdfs
    \/ SearchPdfsFails
    \/ SearchDelivered
SpecSearch == InitSearch /\ [][NextSearch]_vars

\* canvas-link requests racing the upload requests
InitCanvas == ChunkIdle /\ EmbedIdle /\ StoreInit /\ PdfInit /\ CanvasInit /\ NoteInit /\ AskInit /\ CleanIdle
NextCanvas ==
    \/ PdfNext({SmallPdf, CorruptPdf, NotPdf})
    \/ LinkNotFound
    \/ LinkUpserted
    \/ LinkFails
SpecCanvas == InitCanvas /\ [][NextCanvas]_vars

\* retrieval by canvas selection racing an upload request and the canvas-link
\* requests, in a project that holds a processed note
InitAsk ==
    ChunkIdle /\ EmbedIdle /\ StoreInit /\ PdfInit /\ CanvasInit /\ NotedInit
        /\ AskInit /\ CleanIdle
NextAsk ==
    \/ PdfStep(1, {NotesPdf, CorruptPdf, NotPdf})
    \/ LinkUpserted
    \/ ContextSearch(Selections, {<<"a">>})
    \/ AskWithoutSelection
    \/ AskRanked(Selections, {<<"a">>})
    \/ AskFallback(Selections)
    \/ AskFallbackRaises(Selections)
SpecAsk == InitAsk /\ [][NextAsk]_vars

\* concurrent insert_chunks calls
InitInsert ==
    ChunkIdle /\ EmbedIdle /\ InsertInit /\ CanvasInit /\ NoteInit /\ AskInit /\ CleanIdle
SpecInsert == InitInsert /\ [][InsertNext]_vars

\* _clean_text applied to every generated page text
InitClean ==
    ChunkIdle /\ EmbedIdle /\ StoreInit /\ PdfInit /\ CanvasInit /\ NoteInit /\ AskInit /\ CleanInit
SpecClean == InitClean /\ [][CleanReturn]_vars

\* one chunk_text call that is always scheduled, the chunker built with any
\* configuration
InitLoop == LoopInit /\ EmbedIdle /\ StoreInit /\ PdfInit /\ CanvasInit /\ NoteInit /\ AskInit /\ CleanIdle
SpecLoop == InitLoop /\ [][LoopNext]_vars /\ WF_vars(LoopNext)

\* one chunk_text call on a generated text next to one upload request
InitIndex == ChunkInit /\ EmbedIdle /\ StoreInit /\ PdfInit /\ CanvasInit /\ NoteInit /\ AskInit /\ CleanIdle
NextIndex ==
    \/ ChunkNext
    \/ PdfStep(1, {NotesPdf, ExamplePdf, CorruptPdf, NotPdf})
SpecIndex == InitIndex /\ [][NextIndex]_vars

\* handwriting uploads and their background tasks
InitNote == ChunkIdle /\ EmbedIdle /\ StoreInit /\ PdfInit /\ CanvasInit /\ NoteInit /\ AskInit /\ CleanIdle
SpecNote == InitNote /\ [][NoteNext]_vars

\* one handwriting upload whose background task, once scheduled, is run, every
\* call it makes returning or failing
NextTask ==
    \/ HwStep(1)
    \/ \E k \in Invocations :
          \/ ProcessNoteInvokedAgain(1, k)
          \/ ProcessNoteStep(1, k)
SpecTask ==
    /\ InitNote /\ [][NextTask]_vars
    /\ \A k \in Invocations : WF_vars(ProcessNoteStep(1, k))

----------------------------------------------------------------------------
(* Claims about chunk_text (SpecChunk) *)

\* the union of the recorded [char_start, char_end) ranges covers [0, len(text))
Covered(text, chunks) ==
    \A p \in 0..(Len(text) - 1) :
        \E i \in 1..Len(chunks) : chunks[i].char_start <= p /\ p < chunks[i].char_end

\* adjacent emitted chunks overlap by exactly ovl characters, the pair that ends
\* with the final chunk excepted
AdjacentOverlap(chunks, ovl) ==
    \A i \in 1..(Len(chunks) - 2) :
        chunks[i].char_end - chunks[i + 1].char_start = ovl

\* every window [k*(size-ovl), k*(size-ovl)+size) that starts inside the text
\* has more than 50 characters of stripped content
NoWindowSkipped(size, ovl, text) ==
    \A k \in 0..((Len(text) - 1) \div (size - ovl)) :
        Len(Strip(Slice(text, k * (size - ovl), k * (size - ovl) + size))) > 50

\* C1 as stated: for every non-empty text the chunk_text result covers
\* [0, len(text)) and adjacent chunks overlap by exactly `overlap`.
C1_Original ==
    (ck_pc = "returned" /\ Len(ck_text) > 0)
        => (Covered(ck_text, ck_chunks) /\ AdjacentOverlap(ck_chunks, ck_overlap))

\* C1 amended: for every non-empty text none of whose windows is skipped for
\* lack of content (each window has more than 50 stripped characters), the
\* emitted ranges cover [0, len(text)) and adjacent chunks overlap by exactly
\* `overlap`.
C1_CoverageWhenNoWindowSkipped ==
    (ck_pc = "returned" /\ Len(ck_text) > 0
        /\ NoWindowSkipped(ck_size, ck_overlap, ck_text))
        => (Covered(ck_text, ck_chunks) /\ AdjacentOverlap(ck_chunks, ck_overlap))

\* a text cut into at least three chunks with no window skipped
C1_Witness ==
    /\ ck_pc = "returned"
    /\ Len(ck_chunks) >= 3
    /\ NoWindowSkipped(ck_size, ck_overlap, ck_text)

----------------------------------------------------------------------------
(* Claims about generate_embeddings (SpecEmbed) *)

\* C4: for any N input strings, any batch size >= 1 and any order of the items
\* in each response, generate_embeddings returns exactly N vectors and the
\* i-th one is the embedding of the i-th input string.
C4_OrderPreserved ==
    emb.pc = "returned" =>
        /\ emb.ret.returned
        /\ Len(emb.ret.value) = Len(emb.texts)
        /\ \A i \in 1..Len(emb.texts) : emb.ret.value[i] = EmbedOf(emb.texts[i])

\* a call of several batches, one of them answered out of order, has returned
C4_Witness ==
    /\ emb.pc = "returned"
    /\ emb.requests >= 2
    /\ emb_reordered
    /\ \E i, j \in 1..Len(emb.texts) : emb.ret.value[i] # emb.ret.value[j]

\* C5: when the request of a batch fails, generate_embeddings raises, returns
\* no vector (not even those of earlier batches) and issues no later request.
C5_FailedBatchAborts ==
    emb_failed # 0 =>
        /\ emb.pc = "raised"
        /\ emb.ret = NoReturn
        /\ emb.requests = emb_failed

\* the second batch failed after the first one succeeded, with batches left
C5_Witness ==
    /\ emb_failed = 2
    /\ emb.pc = "raised"
    /\ Len(emb.all_embeddings) > 0
    /\ emb.i + emb.batch_size < Len(emb.texts)

----------------------------------------------------------------------------
(* Claims about process_pdf (SpecPdf) *)

\* the call has run the chunking stage
Chunked(f) == f.pc \notin {"idle", "rejected", "extract", "chunk"}

\* the rows of pdf_chunks that belong to a document
RowsOf(document_id) == SelectSeq(pdf_chunks, LAMBDA r : r.document_id = document_id)

\* C2: no chunk emitted by chunk_text and no row persisted by process_pdf has
\* stripped text shorter than 50 characters; a page with fewer than 50
\* meaningful characters yields no chunk, and chunking it raises no error.
C2_MinimumContent ==
    /\ \A k \in 1..Len(pdf_chunks) : Len(Strip(pdf_chunks[k].chunk_text)) >= 50
    /\ \A c \in Calls :
        /\ \A k \in 1..Len(calls[c].all_chunks) :
              Len(Strip(calls[c].all_chunks[k].text)) >= 50
        /\ calls[c].raised_in # "chunk"
        /\ Chunked(calls[c]) =>
              \A p \in 1..Len(calls[c].page_texts) :
                  Len(Strip(calls[c].page_texts[p])) < 50 =>
                      \A k \in 1..Len(calls[c].all_chunks) :
                          calls[c].all_chunks[k].page_number # p

\* an upload with a page of fewer than 50 characters was answered 200 and its
\* other page's chunks are persisted
C2_Witness ==
    \E c \in Calls :
        /\ calls[c].pc = "done" /\ calls[c].status = 200
        /\ \E p \in 1..Len(calls[c].page_texts) :
              /\ Len(calls[c].page_texts[p]) > 0
              /\ Len(Strip(calls[c].page_texts[p])) < 50
        /\ Len(RowsOf(calls[c].document_id)) > 0

\* C3 as stated: the upload of a 2-page PDF with 1200 characters on page 1 and
\* 30 on page 2 stores exactly two chunks, both of page 1, with the recorded
\* ranges [0,1000) and [800,1200), none for page 2, and returns chunk_count = 2.
C3_SpecExample ==
    \A c \in Calls :
        (/\ calls[c].pc = "done"
         /\ Len(calls[c].page_texts) = 2
         /\ Len(calls[c].page_texts[1]) = 1200
         /\ Len(calls[c].page_texts[2]) = 30)
        => LET rows == RowsOf(calls[c].document_id)
           IN  /\ Len(rows) = 2
               /\ rows[1].page_number = 1 /\ rows[2].page_number = 1
               /\ rows[1].metadata.char_start = 0 /\ rows[1].metadata.char_end = 1000
               /\ rows[2].metadata.char_start = 800 /\ rows[2].metadata.char_end = 1200
               /\ calls[c].ret.value.chunk_count = 2

----------------------------------------------------------------------------
(* Claims about similarity search (SpecSearch) *)

\* row r of pdf_chunks passes the document filter and the threshold of the
\* answered request s
Passes(s, r) ==
    /\ (s.document_id = NoDoc \/ r.document_id = s.document_id)
    /\ Similarity(EmbedOf(s.query), r.embedding) >= s.threshold

\* a result x ranks before the stored row r: higher similarity, or the same
\* similarity and inserted earlier
RanksBefore(s, x, r) ==
    \/ x.similarity > Similarity(EmbedOf(s.query), r.embedding)
    \/ /\ x.similarity = Similarity(EmbedOf(s.query), r.embedding)
       /\ x.id < r.id

\* the response s is right for the table rows
RightResults(s, rows) ==
    LET res == s.results
    IN  /\ Len(res) <= s.limit
        /\ s.count = Len(res)
        /\ \A k \in 1..Len(res) :
              /\ res[k].id \in 1..Len(rows)
              /\ res[k].document_id = rows[res[k].id].document_id
              /\ res[k].similarity = Similarity(EmbedOf(s.query), rows[res[k].id].embedding)
              /\ Passes(s, rows[res[k].id])
        /\ \A k, l \in 1..Len(res) :
              k < l => RanksBefore(s, res[k], rows[res[l].id])
        /\ \A i \in 1..Len(rows) :
              (Passes(s, rows[i]) /\ \A k \in 1..Len(res) : res[k].id # i)
                  => /\ Len(res) = s.limit
                     /\ \A k \in 1..Len(res) : RanksBefore(s, res[k], rows[i])

\* C6: a search answers at most `limit` rows, each with similarity >= threshold
\* and of the requested document, and they are the highest-ranked rows among
\* those that pass the threshold, by similarity descending, ties by insertion
\* order.
C6_SearchResults ==
    [][(last_search.status = 0 /\ last_search'.status = 200)
          => RightResults(last_search', pdf_chunks)]_vars

\* a search capped by its limit left out a row that passes the threshold, and
\* two of the rows it ranked have the same similarity
C6_Witness ==
    /\ last_search.status = 200
    /\ Len(last_search.results) = last_search.limit
    /\ \E i \in 1..Len(pdf_chunks) :
          /\ Passes(last_search, pdf_chunks[i])
          /\ \A k \in 1..Len(last_search.results) : last_search.results[k].id # i
          /\ \E k \in 1..Len(last_search.results) :
                last_search.results[k].similarity
                    = Similarity(EmbedOf(last_search.query), pdf_chunks[i].embedding)
    /\ \E i \in 1..Len(pdf_chunks) : ~Passes(last_search, pdf_chunks[i])

\* the thresholds compared
ThresholdGrid == {0, 20, 40, 60, 70, 80, 90, 100}

\* the number of rows similarity_search returns for the request s with its
\* threshold replaced by t
CountAt(s, t) ==
    Len(SimilaritySearch(pdf_chunks, EmbedOf(s.query), s.limit, t, s.document_id))

\* C7: for the same rows, query, limit and document filter, raising the
\* threshold never increases the number of rows similarity_search returns: a
\* search returns no more rows than it would at any lower threshold and no
\* fewer than at any higher one.
C7_ThresholdMonotone ==
    [][(last_search.status = 0 /\ last_search'.status = 200)
          => \A t \in ThresholdGrid :
                /\ t <= last_search'.threshold => last_search'.count <= CountAt(last_search', t)
                /\ t >= last_search'.threshold => CountAt(last_search', t) <= last_search'.count]_vars

\* a search found rows, and would have found more at a lower threshold
C7_Witness ==
    /\ last_search.status = 200
    /\ last_search.count > 0
    /\ \E t \in ThresholdGrid :
          /\ t < last_search.threshold
          /\ CountAt(last_search, t) > last_search.count

----------------------------------------------------------------------------
(* Claims about the canvas links (SpecCanvas) *)

\* the document of the most recent request answered 200 for the shape, NoDoc
\* when there was none
LastLinked(log, shape_id) ==
    LET linked == SelectSeq(log, LAMBDA r : r.shape_id = shape_id)
    IN  IF linked = <<>> THEN NoDoc ELSE linked[Len(linked)].document_id

\* C8: after any sequence of upsert_pdf_canvas_link calls a shape has at most
\* one link, and that link points at the document of the most recent successful
\* call for the shape (a shape never linked has no link)
C8_OneLinkPerShape ==
    \A s \in Shapes :
        LET rows == LinksOf(pdf_canvas_links, s)
            last == LastLinked(link_log, s)
        IN  /\ Len(rows) <= 1
            /\ last = NoDoc => rows = <<>>
            /\ last # NoDoc => Len(rows) = 1 /\ rows[1].document_id = last

\* a shape was linked twice, to two different documents, and its one link
\* points at the second
C8_Witness ==
    \E s \in Shapes :
        LET linked == SelectSeq(link_log, LAMBDA r : r.shape_id = s)
            rows == LinksOf(pdf_canvas_links, s)
        IN  /\ Len(linked) = 2
            /\ linked[1].document_id # linked[2].document_id
            /\ Len(rows) = 1
            /\ rows[1].document_id = linked[2].document_id

\* the link references a row of pdf_documents
ReferencesDocument(link, documents) == GetDocument(documents, link.document_id) # <<>>

\* C9: every link references an existing document; a link is created or
\* overwritten only for a document that get_document finds, and a request
\* answered 404 leaves the links as they were
C9_LinksReferenceDocuments ==
    /\ [](\A k \in 1..Len(pdf_canvas_links) :
            ReferencesDocument(pdf_canvas_links[k], pdf_documents))
    /\ [][/\ \A k \in 1..Len(pdf_canvas_links') :
               (k > Len(pdf_canvas_links) \/ pdf_canvas_links'[k] # pdf_canvas_links[k])
                   => ReferencesDocument(pdf_canvas_links'[k], pdf_documents)
          /\ (link_resp'.status = 404 /\ link_resp' # link_resp)
                   => pdf_canvas_links' = pdf_canvas_links]_vars

\* a request for a missing document was answered 404 while a link exists
C9_Witness ==
    /\ link_resp.status = 404
    /\ pdf_canvas_links # <<>>
    /\ Len(pdf_documents) < MaxCalls

----------------------------------------------------------------------------
(* Claims about the handwriting notes (SpecNote) *)

NoteChunksOf(chunks, note_id) == SelectSeq(chunks, LAMBDA r : r.note_id = note_id)

ResponsesKept ==
    \A h \in Notes : hw_calls[h].status # 0 => hw_calls'[h] = hw_calls[h]

C13_UploadAnswersProcessing ==
    /\ [](\A n \in Notes :
            note_tasks[n][1].pc # "idle"
                => /\ n <= Len(handwriting_notes)
                   /\ \E h \in Notes : /\ hw_calls[h].status = 200
                                      /\ hw_calls[h].note_id = n
                                      /\ hw_calls[h].note_status = "processing")
    /\ [][/\ \A n \in Notes :
               (note_tasks[n][1].pc = "idle" /\ note_tasks'[n][1].pc # "idle")
                   => /\ n = Len(handwriting_notes')
                      /\ n = Len(handwriting_notes) + 1
                      /\ handwriting_notes'[n].status = "processing"
                      /\ note_tasks'[n][1].pc = "scheduled"
          /\ \A h \in Notes :
               (hw_calls[h].status = 0 /\ hw_calls'[h].status = 200)
                   => /\ hw_calls'[h].note_id = Len(handwriting_notes')
                      /\ hw_calls'[h].note_status = "processing"
                      /\ note_tasks'[hw_calls'[h].note_id][1].pc = "scheduled"
          /\ ResponsesKept]_vars

\* an upload was answered with processing, its task has completed the note,
\* and another upload was answered 500 after its insert failed
C13_Witness ==
    \E h, g \in Notes :
        /\ hw_calls[h].status = 200
        /\ hw_calls[h].note_status = "processing"
        /\ handwriting_notes[hw_calls[h].note_id].status = "completed"
        /\ hw_calls[g].status = 500
        /\ hw_calls[g].storage_path # <<>>
        /\ hw_calls[g].note_id = 0
        /\ Len(handwriting_notes) = 1

----------------------------------------------------------------------------
(* Claims about the retrieval by canvas selection (SpecAsk) *)

\* the entries of one source in a result
EntriesOf(entries, source_type, source_id) ==
    SelectSeq(entries, LAMBDA e : e.source_type = source_type /\ e.source_id = source_id)

\* C14: the result of search_context_for_shape_ids holds at most
\* handwriting_limit_per_note entries tagged handwriting for each note and at
\* most pdf_limit_per_document entries tagged pdf for each document
C14_PerSourceCaps ==
    ask.path = "ranked" =>
        /\ \A n \in 1..Len(handwriting_notes) :
              Len(EntriesOf(ask.entries, "handwriting", n))
                  <= ask.args.handwriting_limit_per_note
        /\ \A d \in 1..Len(pdf_documents) :
              Len(EntriesOf(ask.entries, "pdf", d)) <= ask.args.pdf_limit_per_document

\* a note with more stored chunks than the cap filled the cap, and so did a
\* document in another call
C14_Witness ==
    /\ ask.path = "ranked"
    /\ \/ /\ ask.args.handwriting_limit_per_note = 1
          /\ Len(NoteChunksOf(handwriting_chunks, 1)) = 2
          /\ Len(EntriesOf(ask.entries, "handwriting", 1)) = 1
          /\ Len(EntriesOf(ask.entries, "pdf", 1)) = 2
       \/ /\ ask.args.pdf_limit_per_document = 1
          /\ Len(pdf_chunks) = 3
          /\ Len(EntriesOf(ask.entries, "pdf", 1)) = 1
          /\ Len(EntriesOf(ask.entries, "handwriting", 1)) = 2

\* the entry is tagged with the table its chunk is in, names the source of the
\* chunk, and carries the similarity of the chunk to the query
RightlyTagged(e, query_embedding, db) ==
    \/ /\ e.source_type = "pdf"
       /\ \E k \in 1..Len(db.pdf_rows) :
             /\ db.pdf_rows[k].id = e.chunk_id
             /\ db.pdf_rows[k].document_id = e.source_id
             /\ e.similarity = Similarity(query_embedding, db.pdf_rows[k].embedding)
    \/ /\ e.source_type = "handwriting"
       /\ \E k \in 1..Len(db.hw_rows) :
             /\ db.hw_rows[k].id = e.chunk_id
             /\ db.hw_rows[k].note_id = e.source_id
             /\ e.similarity = Similarity(query_embedding, db.hw_rows[k].embedding)

\* C15: search_context_for_shape_ids returns one sequence, every entry tagged
\* pdf or handwriting as the source it came from, every similarity at least
\* the threshold, and the similarities in descending order across the sources
C15_MergedRanked ==
    ask.path = "ranked" =>
        /\ \A i \in 1..Len(ask.entries) :
              /\ RightlyTagged(ask.entries[i], ask.query_embedding, Tables)
              /\ ask.entries[i].similarity >= ask.args.threshold
        /\ \A i, j \in 1..Len(ask.entries) :
              i < j => ask.entries[i].similarity >= ask.entries[j].similarity

\* a result with entries of both kinds, a handwriting entry ranked before a
\* pdf entry of lower similarity
C15_Witness ==
    /\ ask.path = "ranked"
    /\ \E i, j \in 1..Len(ask.entries) :
          /\ i < j
          /\ ask.entries[i].source_type = "handwriting"
          /\ ask.entries[j].source_type = "pdf"
          /\ ask.entries[i].similarity > ask.entries[j].similarity

\* the shape ids that resolve to a linked document or to a note
Resolvable(db, shape_ids) ==
    SelectSeq(shape_ids, LAMBDA s :
        \/ LinksOf(db.links, s) # <<>>
        \/ \E k \in 1..Len(db.notes) : db.notes[k].frame_id = s)

\* C16: a shape id that resolves to nothing is skipped: the call returns, and
\* returns what it returns for the other shape ids alone
C16_UnresolvedSkipped ==
    [][(ask' # ask /\ ask'.path = "ranked")
          => /\ ask'.status = 200
             /\ ask'.entries =
                   SearchContextForShapeIds(Tables, Resolvable(Tables, ask'.shape_ids),
                                            ask'.query_embedding, ask'.args)]_vars

\* a selection with an unresolved shape id got the entries of its other shapes
C16_Witness ==
    /\ ask.path = "ranked"
    /\ ask.status = 200
    /\ \E k \in 1..Len(ask.shape_ids) : ask.shape_ids[k] = "shape:none"
    /\ Len(Resolvable(Tables, ask.shape_ids)) = 2
    /\ EntriesOf(ask.entries, "pdf", 1) # <<>>
    /\ EntriesOf(ask.entries, "handwriting", 1) # <<>>

\* C17: with a non-empty selection the retrieval step of ask_stream never
\* fails the request, whichever call is the one that raises
C17_RetrievalNeverFails ==
    (ask.kind = "ask" /\ ask.shape_ids # <<>>) => ask.status = 200

\* the entry names a row that is in its table, with the source the row has
Committed(e, db) ==
    \/ /\ e.source_type = "pdf"
       /\ \E k \in 1..Len(db.pdf_rows) :
             db.pdf_rows[k].id = e.chunk_id /\ db.pdf_rows[k].document_id = e.source_id
    \/ /\ e.source_type = "handwriting"
       /\ \E k \in 1..Len(db.hw_rows) :
             db.hw_rows[k].id = e.chunk_id /\ db.hw_rows[k].note_id = e.source_id

\* C20: a retrieval (similarity_search under the Context Aggregator) changes no
\* document, chunk, note or link row, whatever ingestion is in flight, and every
\* row it returns is a chunk row that an insert had committed when it ran
C20_ReadOnlyCommitted ==
    [][ask' # ask
          => /\ UNCHANGED <<pdf_documents, pdf_chunks, blobs, pdf_canvas_links,
                            handwriting_notes, handwriting_chunks, calls>>
             /\ \A i \in 1..Len(ask'.entries) : Committed(ask'.entries[i], Tables)]_vars

\* a retrieval for a shape linked to a document whose chunks are not yet
\* inserted returned the chunks of the note only
C20_Witness ==
    /\ calls[1].pc = "insert_chunks"
    /\ calls[1].i < Len(calls[1].rows)
    /\ pdf_chunks = <<>>
    /\ ask.path = "ranked"
    /\ \E k \in 1..Len(ask.shape_ids) :
          LinksOf(pdf_canvas_links, ask.shape_ids[k]) # <<>>
    /\ ask.entries # <<>>
    /\ \A i \in 1..Len(ask.entries) : ask.entries[i].source_type = "handwriting"

----------------------------------------------------------------------------
(* Claims about insert_chunks (SpecInsert) *)

\* the stored rows of the document are the first n rows of the call, in order
StoredPrefix(c, n) ==
    LET stored == RowsOf(calls[c].document_id)
    IN  /\ Len(stored) = n
        /\ n <= Len(calls[c].rows)
        /\ \A k \in 1..n :
              [f \in DOMAIN calls[c].rows[k] |-> stored[k][f]] = calls[c].rows[k]

\* C18: insert_chunks writes the rows in consecutive batches of at most 50 in
\* input order; on success it returns the number of rows written; when the
\* write of a batch fails it raises, the batches written before stay and no
\* later batch is written
C18_BatchedInsert ==
    /\ [](\A c \in Calls :
            /\ StoredPrefix(c, calls[c].total_inserted)
            /\ calls[c].pc = "done"
                  => /\ calls[c].total_inserted = Len(calls[c].rows)
                     /\ calls[c].ret.value.chunk_count = Len(calls[c].rows)
            /\ calls[c].pc = "raised"
                  => /\ calls[c].total_inserted < Len(calls[c].rows)
                     /\ calls[c].total_inserted % InsertBatchSize = 0)
    /\ [][/\ Len(pdf_chunks') - Len(pdf_chunks) \in 0..InsertBatchSize
          /\ \A c \in Calls :
               calls[c].pc = "raised" => RowsOf(calls[c].document_id)' = RowsOf(calls[c].document_id)
          /\ \A c \in Calls :
               (calls[c].pc = "insert_chunks" /\ calls'[c].pc = "insert_chunks"
                    /\ calls'[c] # calls[c])
                   => calls'[c].total_inserted - calls[c].total_inserted
                         = Min(InsertBatchSize, Len(calls[c].rows) - calls[c].total_inserted)]_vars

\* a call of 101 rows raised at its third batch with its first 100 rows stored,
\* while the other call stored its 51 rows in two batches and returned 51
C18_Witness ==
    \E c, d \in Calls :
        /\ Len(calls[c].rows) = 101
        /\ calls[c].pc = "raised"
        /\ Len(RowsOf(calls[c].document_id)) = 100
        /\ Len(calls[d].rows) = 51
        /\ calls[d].pc = "done"
        /\ calls[d].ret.value.chunk_count = 51

----------------------------------------------------------------------------
(* Claims about PDFExtractor._clean_text (SpecClean) *)

\* C19: the text _clean_text returns holds no null character and no
\* replacement character, has no leading and no trailing space, and no two
\* adjacent spaces
C19_CleanOutput ==
    cl_out.returned =>
        LET out == cl_out.value
        IN  /\ \A k \in 1..Len(out) : out[k] \notin {"NUL", "REPL"}
            /\ Len(out) > 0 => (~IsSpace(out[1]) /\ ~IsSpace(out[Len(out)]))
            /\ \A k \in 1..(Len(out) - 1) : ~(IsSpace(out[k]) /\ IsSpace(out[k + 1]))

----------------------------------------------------------------------------
(* Claims about concurrent process_pdf calls (SpecPdf) *)

\* the chunks the chunker emits for the file the call was sent
OwnChunks(c) ==
    ChunkPages(ExtractTextByPage(FileNamed(calls[c].filename).pages), 1)

\* C21: under any interleaving of concurrent process_pdf calls each call gets
\* a document id of its own, and every chunk row written carries the document
\* id of the call that wrote it with that call's own chunk text and embedding
C21_UploadsIsolated ==
    /\ \A c, d \in Calls :
          (c # d /\ calls[c].document_id # NoDoc /\ calls[d].document_id # NoDoc)
              => calls[c].document_id # calls[d].document_id
    /\ \A k \in 1..Len(pdf_chunks) :
          \E c \in Calls : calls[c].document_id = pdf_chunks[k].document_id
    /\ \A c \in Calls :
          calls[c].document_id # NoDoc =>
              LET stored == RowsOf(calls[c].document_id)
                  own == OwnChunks(c)
              IN  /\ Len(stored) = calls[c].total_inserted
                  /\ Len(stored) <= Len(own)
                  /\ \A k \in 1..Len(stored) :
                        /\ stored[k].chunk_text = own[k].text
                        /\ stored[k].page_number = own[k].page_number
                        /\ stored[k].embedding = EmbedOf(own[k].text)

\* two uploads of different files ran interleaved (each inserted its document
\* before the other wrote a chunk) and both stored their rows
C21_Witness ==
    \E c, d \in Calls :
        /\ calls[c].filename # calls[d].filename
        /\ calls[c].pc = "done" /\ calls[d].pc = "insert_chunks"
        /\ calls[d].total_inserted = 0
        /\ Len(RowsOf(calls[c].document_id)) > 0
        /\ Len(calls[d].rows) > 0
        /\ calls[d].document_id < calls[c].document_id

----------------------------------------------------------------------------
(* Claims about the termination of chunk_text (SpecLoop) *)

\* C22: chunk_text terminates for every text and every (chunk_size, overlap)
\* the constructor accepts: the call eventually returns, and it returns when
\* start >= len(text)
C22_Terminates ==
    /\ <>(ck_pc = "returned")
    /\ [](ck_pc = "returned" => ck_start >= Len(ck_text))

----------------------------------------------------------------------------
(* Claims about the chunk indices (SpecIndex) *)

\* the chunks have the indices 0, 1, 2, ... and strictly increasing char_start
Numbered(chunks) ==
    /\ \A k \in 1..Len(chunks) : chunks[k].chunk_index = k - 1
    /\ \A k \in 1..(Len(chunks) - 1) : chunks[k].char_start < chunks[k + 1].char_start

\* C23: within one chunk_text call the chunks emitted have chunk_index 0, 1,
\* 2, ... with no gap and no repeat, also when windows are skipped, and
\* strictly increasing char_start; after process_pdf the pair (page_number,
\* chunk_index) is unique among the chunk rows of one document
C23_IndicesConsecutive ==
    /\ Numbered(ck_chunks)
    /\ \A c \in Calls :
          \A p \in 1..Len(calls[c].page_texts) :
              Numbered(SelectSeq(calls[c].all_chunks, LAMBDA ch : ch.page_number = p))
    /\ \A i, j \in 1..Len(pdf_chunks) :
          (/\ i # j
           /\ pdf_chunks[i].document_id = pdf_chunks[j].document_id
           /\ pdf_chunks[i].page_number = pdf_chunks[j].page_number)
              => pdf_chunks[i].chunk_index # pdf_chunks[j].chunk_index

\* a chunk_text call returned two chunks or more after it skipped its first
\* window, and an upload stored chunks of index 0 for two pages of its document
C23_Witness ==
    /\ ck_pc = "returned"
    /\ Len(ck_chunks) >= 2
    /\ ck_chunks[1].char_start > 0
    /\ calls[1].pc = "done"
    /\ \E i, j \in 1..Len(pdf_chunks) :
          /\ pdf_chunks[i].page_number # pdf_chunks[j].page_number
          /\ pdf_chunks[i].chunk_index = pdf_chunks[j].chunk_index

----------------------------------------------------------------------------
(* Claims about the stages of process_pdf (SpecPdf) *)

\* the stages of process_pdf in the order of the code
Stages == <<"extract", "chunk", "embed", "upload", "insert_document", "insert_chunks">>
StageOf(pc) == CHOOSE s \in 1..Len(Stages) : Stages[s] = pc
InStage(f) == \E s \in 1..Len(Stages) : Stages[s] = f.pc

\* C24: process_pdf runs extraction, chunking, embedding, blob upload,
\* document insert and chunk insert strictly in this order; a call in which
\* extraction, chunking or embedding fails raises and has written no blob, no
\* document row and no chunk row
C24_StagesInOrder ==
    /\ [](\A c \in Calls :
            calls[c].raised_in \in {"extract", "chunk", "embed"}
                => /\ calls[c].pc = "raised"
                   /\ calls[c].storage_path = <<>>
                   /\ calls[c].document_id = NoDoc
                   /\ calls[c].total_inserted = 0)
    /\ [][\A c \in Calls :
            calls'[c] # calls[c] =>
                /\ (InStage(calls[c]) /\ InStage(calls'[c]))
                      => StageOf(calls'[c].pc) - StageOf(calls[c].pc) \in {0, 1}
                /\ calls'[c].pc = "done" => calls[c].pc = "insert_chunks"
                /\ calls[c].pc \in {"idle", "extract", "chunk", "embed"}
                      => UNCHANGED storeVars
                /\ blobs' # blobs => calls[c].pc = "upload"
                /\ pdf_documents' # pdf_documents => calls[c].pc = "insert_document"
                /\ pdf_chunks' # pdf_chunks => calls[c].pc = "insert_chunks"]_vars

\* one call raised in the embedding stage and the other in the extraction,
\* and the store is empty
C24_Witness ==
    \E c, d \in Calls :
        /\ calls[c].pc = "raised" /\ calls[c].raised_in = "embed"
        /\ calls[d].pc = "raised" /\ calls[d].raised_in = "extract"
        /\ blobs = <<>> /\ pdf_documents = <<>> /\ pdf_chunks = <<>>

----------------------------------------------------------------------------
(* Claims about the progress of the handwriting notes (SpecTask) *)

\* C25: every note the upload endpoint creates eventually leaves
\* `processing`: its status eventually is `completed` or `failed`
C25_NoteLeavesProcessing ==
    \A n \in Notes :
        (n <= Len(handwriting_notes))
            ~> (/\ n <= Len(handwriting_notes)
                /\ handwriting_notes[n].status \in {"completed", "failed"})

----------------------------------------------------------------------------
(* Claims about the rows process_pdf stores (SpecPdf) *)

\* C26: every chunk row persisted by insert_chunks has char_end - char_start
\* equal to text_length, the length of its chunk_text, and a char_end that
\* does not exceed the length of the page text the chunk was cut from
C26_PositionsMatchText ==
    \A c \in Calls :
        calls[c].document_id # NoDoc =>
            LET rows == RowsOf(calls[c].document_id)
            IN  \A k \in 1..Len(rows) :
                    /\ rows[k].metadata.text_length = Len(rows[k].chunk_text)
                    /\ rows[k].metadata.char_end - rows[k].metadata.char_start
                          = rows[k].metadata.text_length
                    /\ rows[k].metadata.char_end
                          <= Len(calls[c].page_texts[rows[k].page_number])

\* C27: on a successful process_pdf call the number of chunk rows written and
\* the chunk_count returned both equal the number of chunks the chunker emitted
\* over all pages, and the embedding of each written row is the vector computed
\* for the chunk_text of that row
C27_RowsMatchChunks ==
    \A c \in Calls :
        calls[c].pc = "done" =>
            LET rows == RowsOf(calls[c].document_id)
            IN  /\ Len(calls[c].all_chunks) = Len(OwnChunks(c))
                /\ Len(rows) = Len(calls[c].all_chunks)
                /\ calls[c].ret.value.chunk_count = Len(calls[c].all_chunks)
                /\ \A k \in 1..Len(rows) :
                      /\ rows[k].chunk_text = calls[c].all_chunks[k].text
                      /\ rows[k].embedding = EmbedOf(rows[k].chunk_text)

\* an upload returned chunk_count = 2 with two rows of different embeddings
C27_Witness ==
    \E c \in Calls :
        /\ calls[c].pc = "done"
        /\ calls[c].ret.value.chunk_count = 2
        /\ Len(RowsOf(calls[c].document_id)) = 2
        /\ RowsOf(calls[c].document_id)[1].embedding
              # RowsOf(calls[c].document_id)[2].embedding

\* C28: in every reachable state every PDF chunk row references a document row
\* that exists: the document row is inserted before any of its chunks and no
\* document row is ever removed, also when a call fails during the insertion
\* of the chunks
C28_ChunksReferenceDocuments ==
    /\ [](\A k \in 1..Len(pdf_chunks) :
            GetDocument(pdf_documents, pdf_chunks[k].document_id) # <<>>)
    /\ [][/\ Len(pdf_documents') >= Len(pdf_documents)
          /\ SubSeq(pdf_documents', 1, Len(pdf_documents)) = pdf_documents]_vars

\* a call failed in insert_chunks and left its document row without chunks,
\* next to a document that has its chunks
C28_Witness ==
    \E c, d \in Calls :
        /\ calls[c].pc = "raised" /\ calls[c].raised_in = "insert_chunks"
        /\ Len(calls[c].rows) > 0
        /\ GetDocument(pdf_documents, calls[c].document_id) # <<>>
        /\ RowsOf(calls[c].document_id) = <<>>
        /\ calls[d].pc = "done"
        /\ RowsOf(calls[d].document_id) # <<>>

====
